---------------------------- MODULE Spec2Model ----------------------------
(***************************************************************************)
(* NetworkConfigParser: the tree builders of parser.py                     *)
(* (parse_autodetect, parse_braced, parse_leading_spaces) and the node     *)
(* model of DocumentLine.py.                                               *)
(*                                                                         *)
(* A line of text is a sequence of one-character strings.  A node          *)
(* (DocumentLine) is identified by its line_num; 0 stands for None.        *)
(* The per-node fields are the sequences line, parent and children,        *)
(* indexed by line_num.  One action models one iteration of a builder's    *)
(* for-loop; an exception that leaves the builder is pc = "raised".        *)
(***************************************************************************)
EXTENDS Integers, Sequences, FiniteSets, TLC

(***************************************************************************)
(* Bounds of the model.                                                    *)
(***************************************************************************)
MaxLines == 4

\* longest document on which family() is explored
MaxTree == 4

\* most tokens on a line searched for addresses
MaxTokens == 3

\* longest document searched with find_lines
MaxSearch == 3

\* most callables in the list given to find_lines
MaxChain == 2

\* most callers that access the address cache of a node concurrently
MaxCallers == 2

(***************************************************************************)
(* Characters.                                                             *)
(***************************************************************************)
\* str.rstrip() / str.lstrip() without argument strip these
Whitespace == {" ", "\t", "\n", "\r"}

\* the regex class \w, restricted to ASCII
WordChars ==
    {"a","b","c","d","e","f","g","h","i","j","k","l","m","n","o","p","q","r",
     "s","t","u","v","w","x","y","z",
     "A","B","C","D","E","F","G","H","I","J","K","L","M","N","O","P","Q","R",
     "S","T","U","V","W","X","Y","Z",
     "0","1","2","3","4","5","6","7","8","9","_"}

(***************************************************************************)
(* str methods used by the builders.                                       *)
(***************************************************************************)
None == 0

NoDelimiter == <<>>

\* an Optional[frozenset] is NoSet (None) or the one-element tuple <<set>>
NoSet == <<>>

NoCall == [op |-> "none"]

startswith(s, p) == Len(s) >= Len(p) /\ SubSeq(s, 1, Len(p)) = p

endswith(s, p) == Len(s) >= Len(p) /\ SubSeq(s, Len(s) - Len(p) + 1, Len(s)) = p

contains(s, p) == \E i \in 1..(Len(s) - Len(p) + 1) : SubSeq(s, i, i + Len(p) - 1) = p

RECURSIVE lstrip(_)
lstrip(s) ==
    IF s # <<>> /\ s[1] \in Whitespace THEN lstrip(Tail(s)) ELSE s

\* faulty variant of rstrip: the call to line.rstrip() is left out
rstrip_left_out(s) == s

RECURSIVE rstrip(_)
rstrip(s) ==
    IF s # <<>> /\ s[Len(s)] \in Whitespace THEN rstrip(SubSeq(s, 1, Len(s) - 1)) ELSE s

\* parser.py num_leading_spaces: while s.startswith(" "): i += 1; s = s[1:]
RECURSIVE num_leading_spaces(_)
num_leading_spaces(s) ==
    IF startswith(s, <<" ">>) THEN 1 + num_leading_spaces(Tail(s)) ELSE 0

\* length of the longest prefix of s made of characters of the set cs
RECURSIVE RunLength(_, _)
RunLength(s, cs) ==
    IF s # <<>> /\ s[1] \in cs THEN 1 + RunLength(Tail(s), cs) ELSE 0

RunLengthNot(s, cs) == RunLength(s, {s[i] : i \in 1..Len(s)} \ cs)

Drop(s, n) == SubSeq(s, n + 1, Len(s))

Take(s, n) == SubSeq(s, 1, n)

Min(a, b) == IF a < b THEN a ELSE b


(***************************************************************************)
(* Input lines.  Each is written out as the characters of the string.      *)
(***************************************************************************)
kw_banner == <<"b","a","n","n","e","r"," ">>

kw_route_policy == <<"r","o","u","t","e","-","p","o","l","i","c","y"," ">>

kw_set == <<"-","s","e","t"," ">>

kw_end == <<"e","n","d","-">>

\* lines offered to the indentation builder
SpacedLines ==
    { <<" ","b","\n">>,                          \* 1 space, line terminator
      <<" "," ","c">>,                           \* 2 spaces
      <<" "," "," ","d"," ">>,                   \* 3 spaces, trailing blank
      kw_banner \o <<"m"," ","^">>,              \* banner m ^
      <<"^">>,                                   \* the banner delimiter
      kw_route_policy \o <<"P">>,                \* route-policy P
      kw_end \o <<"p">>,                         \* end-p
      <<"p">> \o kw_set \o <<"N">>,              \* p-set N
      <<"!","\n">>,                              \* a comment, unindented
      <<" ","\n">>,                              \* a blank line
      kw_banner \o <<"m">> }                     \* banner without delimiter

\* lines offered to the braced builder
BracedLines ==
    { <<"a"," ","{">>,                           \* opens a block
      <<"}","\n">>,                              \* closes a block
      <<" ","b",";"," ">>,                       \* a statement
      <<"#"," ","{">>,                           \* a comment ending in {
      <<" ","#","}">>,                           \* an indented comment ending in }
      <<"a","{","}">>,                           \* opens and closes on one line
      <<>> }                                     \* an empty line

\* a twelve-line braced document: four lines end in each of { } ;
JunosSample ==
    << <<"a"," ","{">>, <<"b",";">>, <<"}">>,
       <<"a"," ","{">>, <<"b",";">>, <<"}">>,
       <<"a"," ","{">>, <<"b",";">>, <<"}">>,
       <<"a"," ","{">>, <<"b",";">>, <<"}">> >>

\* JunosSample with its last closing brace on an indented comment line
JunosIndentedComment ==
    SubSeq(JunosSample, 1, 11) \o << <<" ","#"," ","}">> >>

\* thirty-nine unindented lines followed by JunosSample: the fourth closing
\* brace is non-comment line 51
LongSample == [i \in 1..39 |-> <<"a">>] \o JunosSample

\* thirty-eight unindented lines, JunosSample without its last line, one
\* unindented comment line, the last line of JunosSample: the fourth closing
\* brace is line 51 and non-comment line 50
LongCommentedSample ==
    [i \in 1..38 |-> <<"a">>] \o SubSeq(JunosSample, 1, 11)
        \o << <<"!">>, <<"}">> >>

SeqsUpTo(S, n) == UNION { [1..k -> S] : k \in 0..n }

\* the calls explored: a builder and its argument
Calls ==
    ({"parse_leading_spaces"} \X SeqsUpTo(SpacedLines, MaxLines))
    \cup ({"parse_braced"} \X SeqsUpTo(BracedLines, MaxLines))
    \cup ({"parse_autodetect"} \X
            (SeqsUpTo({<<"a">>, <<" ","b","\n">>, <<"#"," ","{">>}, MaxLines)
             \cup {JunosSample, JunosIndentedComment, LongSample,
                   LongCommentedSample}))

(***************************************************************************)
(* State.                                                                  *)
(***************************************************************************)
VARIABLES
    fn,                     \* the function the caller invoked
    config,                 \* its argument: the list of input lines
    pc,                     \* "parse_autodetect", "parse_braced", "parse_leading_spaces", "done", "raised"
    lc,                     \* number of lines the running builder has consumed
    space_multiplier,       \* parse_leading_spaces local (None or int)
    current_space_level,    \* parse_leading_spaces local
    dn_list,                \* builder local: the list being returned
    dn_stack,               \* builder local: stack of open nodes (None may be pushed)
    current_dn,             \* parse_leading_spaces local: node of the previous line
    banner_delimiter,       \* parse_leading_spaces local (NoDelimiter or string)
    ignore_space_levels,    \* parse_leading_spaces local
    line,                   \* DocumentLine._line, by line_num
    parent,                 \* DocumentLine.parent, by line_num
    children,               \* DocumentLine.children, by line_num
    ips_parsed,             \* DocumentLine._ips_parsed, by line_num
    ip_addrs,               \* DocumentLine._ip_addrs, by line_num (NoSet or <<set>>)
    ip_nets,                \* DocumentLine._ip_nets, by line_num (NoSet or <<set>>)
    call,                   \* the query made on the returned list, NoCall if none
    result,                 \* what the query returned
    callers,                \* the concurrent callers of the address cache, by caller
    log,                    \* logging.warning records emitted
    exc                     \* exception that left the builder or the query, "" if none

locals == <<space_multiplier, current_space_level, dn_list, dn_stack, current_dn,
            banner_delimiter, ignore_space_levels>>

nodes == <<line, parent, children>>

\* the address cache of the nodes
cache == <<ips_parsed, ip_addrs, ip_nets>>

query == <<call, result, callers>>

vars == <<fn, config, pc, lc, locals, nodes, cache, query, log, exc>>

\* the state at the entry of one of the calls C
InitWith(C) ==
    /\ \E c \in C : fn = c[1] /\ config = c[2]
    /\ pc = fn
    /\ lc = 0
    /\ space_multiplier = None
    /\ current_space_level = 0
    /\ dn_list = <<>>
    /\ dn_stack = <<>>
    /\ current_dn = None
    /\ banner_delimiter = NoDelimiter
    /\ ignore_space_levels = FALSE
    /\ line = <<>>
    /\ parent = <<>>
    /\ children = <<>>
    /\ ips_parsed = <<>>
    /\ ip_addrs = <<>>
    /\ ip_nets = <<>>
    /\ call = NoCall
    /\ result = None
    \* no caller has called yet: the access it makes, the attribute it reads,
    \* its position, the local addrs_nets of _create_ip_sets and the values
    \* its reads gave
    /\ callers = [t \in 1..MaxCallers |->
                     [op |-> NoCall, attr |-> "", pc |-> "idle", addrs_nets |-> <<>>,
                      seen |-> <<>>]]
    /\ log = <<>>
    /\ exc = ""

Init == InitWith(Calls)

(***************************************************************************)
(* parse_autodetect (parser.py 16-49).                                     *)
(***************************************************************************)
minimum_match == 3

maximum_lines == 50

\* the lines the for-loop does not skip as comments
counted_lines(cfg) ==
    SelectSeq(cfg, LAMBDA l : ~(startswith(l, <<"#">>) \/ startswith(l, <<"!">>)))

\* braced_line_end_chars[k] once the local lc has the value n, counted being
\* the lines that are not skipped
end_chars(counted, k, n) ==
    Cardinality({i \in 1..n : endswith(rstrip(counted[i]), <<k>>)})

\* the for-loop of parse_autodetect: it returns parse_braced(config) in the
\* first pass, the local lc having the value n, in which every counter is
\* above minimum_match; the last pass is the one with n = maximum_lines
autodetect_scan(cfg) ==
    LET counted == counted_lines(cfg)
    IN  IF \E n \in 1..Min(Len(counted), maximum_lines) :
              \A k \in {"{", "}", ";"} : end_chars(counted, k, n) > minimum_match
            THEN "parse_braced"
            ELSE "parse_leading_spaces"

parse_autodetect ==
    /\ pc = "parse_autodetect"
    /\ pc' = autodetect_scan(config)
    /\ UNCHANGED <<fn, config, lc, locals, nodes, cache, query, log, exc>>

(***************************************************************************)
(* Node construction shared by the builders:                               *)
(*     current_dn = DocumentLine(lc, line)                                 *)
(*     if len(dn_stack) > 0:                                               *)
(*         current_dn.parent = dn_stack[-1]                                *)
(*         dn_stack[-1].children.append(current_dn)                        *)
(***************************************************************************)
Top(stack) == stack[Len(stack)]

Pop(stack) == SubSeq(stack, 1, Len(stack) - 1)

\* faulty variant of parent_of_new: dn_stack[0] in place of dn_stack[-1]
parent_of_new_bottom(stack) == IF Len(stack) > 0 THEN stack[1] ELSE None

\* the parent given to a node created while `stack` is the open-node stack
parent_of_new(stack) == IF Len(stack) > 0 THEN Top(stack) ELSE None

\* DocumentLine.__init__ (DocumentLine.py 61-63): the cache of a new node
new_cache ==
    /\ ips_parsed' = Append(ips_parsed, FALSE)
    /\ ip_addrs' = Append(ip_addrs, NoSet)
    /\ ip_nets' = Append(ip_nets, NoSet)

\* the children lists after node `id` was created under `stack`
children_after_attach(chs, stack, id) ==
    IF Len(stack) > 0
        THEN [Append(chs, <<>>) EXCEPT ![Top(stack)] = Append(@, id)]
        ELSE Append(chs, <<>>)

(***************************************************************************)
(* parse_braced (parser.py 52-75): one iteration of the for-loop.          *)
(***************************************************************************)
is_hash_comment(l) == startswith(lstrip(l), <<"#">>)

opens_block(l) == endswith(l, <<"{">>) /\ ~is_hash_comment(l)

closes_block(l) == endswith(l, <<"}">>) /\ ~is_hash_comment(l)

\* faulty variant of braced_push: the comment test of line 69 is left out
braced_push_comments_too(stack, l, id) ==
    IF endswith(l, <<"{">>) THEN Append(stack, id) ELSE stack

braced_push(stack, l, id) == IF opens_block(l) THEN Append(stack, id) ELSE stack

parse_braced ==
    /\ pc = "parse_braced"
    /\ lc < Len(config)
    /\ LET id     == lc + 1
           l      == rstrip(config[id])
           stack1 == braced_push(dn_stack, l, id)
       IN  IF closes_block(l) /\ stack1 = <<>>
               THEN \* dn_stack.pop() on an empty list
                    /\ pc' = "raised"
                    /\ exc' = "IndexError"
                    /\ UNCHANGED <<lc, locals, nodes, cache>>
               ELSE /\ lc' = id
                    /\ line' = Append(line, l)
                    /\ parent' = Append(parent, parent_of_new(dn_stack))
                    /\ children' = children_after_attach(children, dn_stack, id)
                    /\ new_cache
                    /\ dn_list' = Append(dn_list, id)
                    /\ dn_stack' = IF closes_block(l) THEN Pop(stack1) ELSE stack1
                    /\ current_dn' = id
                    /\ UNCHANGED <<space_multiplier, current_space_level,
                                   banner_delimiter, ignore_space_levels, pc, exc>>
    /\ UNCHANGED <<fn, config, query, log>>

(***************************************************************************)
(* parse_leading_spaces (parser.py 78-153): one iteration of the for-loop. *)
(***************************************************************************)
\* lines 93-94
multiplier_after(l, sm) ==
    IF sm = None /\ startswith(l, <<" ">>) THEN num_leading_spaces(l) ELSE sm

\* lines 99-102
raw_space_level(l, sm) ==
    IF sm # None THEN num_leading_spaces(l) \div sm ELSE 0

\* line 107: the line stays inside the flat region
stays_flat(l, isl) == isl /\ (startswith(l, <<" ">>) \/ startswith(l, kw_end))

\* faulty variant of new_space_level: the level is not forced to 1 inside a flat region
new_space_level_not_forced(l, sm, isl) == raw_space_level(l, sm)

\* lines 99-108
new_space_level(l, sm, isl) ==
    IF stays_flat(l, isl) THEN 1 ELSE raw_space_level(l, sm)

\* faulty variant of stack_after_level: a shallower line pops one frame only
stack_after_level_pop_one(stack, csl, nsl, cur) ==
    IF csl < nsl THEN Append(stack, cur)
    ELSE IF csl > nsl /\ stack # <<>> THEN SubSeq(stack, 1, Len(stack) - 1)
    ELSE stack

\* lines 114-124: the stack after the level comparison
stack_after_level(stack, csl, nsl, cur) ==
    IF csl < nsl THEN Append(stack, cur)
    ELSE IF csl > nsl THEN Take(stack, Min(nsl, Len(stack)))
    ELSE stack

\* line 130
level_after(csl, nsl) == nsl

\* line 141: group 1 of re.match(r'^banner \S+ (\S+)', line); NoDelimiter if
\* the pattern does not match (the code then raises on .group)
banner_match(l) ==
    IF ~startswith(l, kw_banner) THEN NoDelimiter
    ELSE LET r1 == Drop(l, Len(kw_banner))
             k1 == RunLengthNot(r1, Whitespace)
             r2 == Drop(r1, k1)
         IN  IF k1 = 0 \/ ~startswith(r2, <<" ">>) THEN NoDelimiter
             ELSE Take(Tail(r2), RunLengthNot(Tail(r2), Whitespace))

\* line 149
opens_flat_region(l) ==
    \/ startswith(l, kw_route_policy)
    \/ LET k == RunLength(l, WordChars)
       IN  k > 0 /\ startswith(Drop(l, k), kw_set)

\* lines 149-152
flat_after(l, isl) ==
    IF startswith(l, kw_end) THEN FALSE ELSE isl \/ opens_flat_region(l)

\* the warnings of lines 110 and 116
warnings(l, id, stack, csl, nsl, isl) ==
    (IF isl /\ ~stays_flat(l, isl)
        THEN << [kind |-> "no_end", lc |-> id, section |-> Top(stack)] >>
        ELSE <<>>)
    \o
    (IF csl < nsl /\ csl + 1 # nsl
        THEN << [kind |-> "level_jump", lc |-> id] >>
        ELSE <<>>)

parse_leading_spaces ==
    /\ pc = "parse_leading_spaces"
    /\ lc < Len(config)
    /\ LET id     == lc + 1
           l      == rstrip(config[id])
           sm     == multiplier_after(l, space_multiplier)
           nsl    == new_space_level(l, sm, ignore_space_levels)
           \* lines 109-111 and 127
           isl1   == ignore_space_levels /\ stays_flat(l, ignore_space_levels)
                       /\ ~(current_space_level > nsl)
           stack1 == stack_after_level(dn_stack, current_space_level, nsl, current_dn)
           isbanner == startswith(l, kw_banner)
           closes == ~isbanner /\ banner_delimiter # NoDelimiter
                       /\ contains(l, banner_delimiter)
           raises ==
               IF ignore_space_levels /\ ~stays_flat(l, ignore_space_levels)
                    /\ dn_stack = <<>>
                   THEN "IndexError"         \* line 110: dn_stack[-1]
               ELSE IF Len(stack1) > 0 /\ Top(stack1) = None
                   THEN "AttributeError"     \* line 136: None.children
               ELSE IF isbanner /\ banner_match(l) = NoDelimiter
                   THEN "AttributeError"     \* line 141: None.group
               ELSE IF closes /\ stack1 = <<>>
                   THEN "IndexError"         \* line 146: pop from empty list
               ELSE ""
       IN  IF raises # ""
               THEN /\ pc' = "raised"
                    /\ exc' = raises
                    /\ UNCHANGED <<lc, locals, nodes, cache, log>>
               ELSE /\ lc' = id
                    /\ space_multiplier' = sm
                    /\ current_space_level' = level_after(current_space_level, nsl)
                    /\ log' = log \o warnings(l, id, dn_stack, current_space_level, nsl,
                                              ignore_space_levels)
                    /\ current_dn' = id
                    /\ line' = Append(line, l)
                    /\ parent' = Append(parent, parent_of_new(stack1))
                    /\ children' = children_after_attach(children, stack1, id)
                    /\ new_cache
                    /\ dn_list' = Append(dn_list, id)
                    /\ IF isbanner
                          THEN \* lines 140-143, ending in `continue`
                               /\ banner_delimiter' = banner_match(l)
                               /\ dn_stack' = Append(stack1, id)
                               /\ ignore_space_levels' = isl1
                          ELSE /\ banner_delimiter' =
                                     IF closes THEN NoDelimiter ELSE banner_delimiter
                               /\ dn_stack' = IF closes THEN Pop(stack1) ELSE stack1
                               /\ ignore_space_levels' = flat_after(l, isl1)
                    /\ UNCHANGED <<pc, exc>>
    /\ UNCHANGED <<fn, config, query>>

(***************************************************************************)
(* `return dn_list` of either builder, once the for-loop is exhausted.     *)
(***************************************************************************)
Return ==
    /\ pc \in {"parse_braced", "parse_leading_spaces"}
    /\ lc = Len(config)
    /\ pc' = "done"
    /\ UNCHANGED <<fn, config, lc, locals, nodes, cache, query, log, exc>>

Next == parse_autodetect \/ parse_braced \/ parse_leading_spaces \/ Return

Spec == Init /\ [][Next]_vars

(***************************************************************************)
(* DocumentLine derived properties (DocumentLine.py 108-144).              *)
(***************************************************************************)
RECURSIVE gen(_)
gen(n) == IF parent[n] = None THEN 1 ELSE gen(parent[n]) + 1

RECURSIVE ancestors(_)
ancestors(n) == IF parent[n] = None THEN <<>> ELSE Append(ancestors(parent[n]), parent[n])

\* faulty variant of all_descendants: the recursion into the children is left out
all_descendants_children_only(n) == children[n]

RECURSIVE all_descendants(_)
all_descendants(n) ==
    LET RECURSIVE extend(_, _)
        \* the for-loop over self.children from position i on
        extend(descendants, i) ==
            IF i > Len(children[n]) THEN descendants
            ELSE extend(Append(descendants, children[n][i])
                            \o all_descendants(children[n][i]), i + 1)
    IN  extend(<<>>, 1)

(***************************************************************************)
(* DocumentLine.family (DocumentLine.py 146-173).                          *)
(***************************************************************************)
\* faulty variant of family: include_all_descendants supersedes include_children
family_supersedes(n, include_ancestors, include_children, include_all_descendants) ==
    (IF include_ancestors THEN ancestors(n) ELSE <<>>)
    \o <<n>>
    \o (IF include_all_descendants THEN all_descendants(n)
        ELSE IF include_children THEN children[n]
        ELSE <<>>)

\* faulty variant of family: line 172 extends with self.children
family_children_always(n, include_ancestors, include_children, include_all_descendants) ==
    (IF include_ancestors THEN ancestors(n) ELSE <<>>)
    \o <<n>>
    \o (IF include_children THEN children[n] ELSE <<>>)

family(n, include_ancestors, include_children, include_all_descendants) ==
    (IF include_ancestors THEN ancestors(n) ELSE <<>>)
    \o <<n>>
    \o (IF include_children /\ ~include_all_descendants THEN children[n]
        ELSE IF include_children /\ include_all_descendants THEN all_descendants(n)
        ELSE <<>>)

\* the parameters of family() after self, all with default True
family_params == {"include_ancestors", "include_children", "include_all_descendants"}

\* the value bound to parameter `name` by the keyword arguments kw
bound(kw, name, default) == IF name \in DOMAIN kw THEN kw[name] ELSE default

\* keyword arguments of the family() calls explored
FamilyKwargs ==
    UNION { [D -> BOOLEAN] : D \in SUBSET family_params }
    \cup { [cousin_depth |-> d] : d \in -1..2 }
    \cup { [include_self |-> b] : b \in BOOLEAN }

\* faulty variant of family_call: the descendants are gathered in the list
\* self.children itself
family_call_extends_children ==
    /\ pc = "done"
    /\ \E n \in 1..Len(line) :
          /\ call' = [op |-> "family", self |-> n, kwargs |-> <<>>]
          /\ result' = family(n, TRUE, TRUE, TRUE)
          /\ children' = [children EXCEPT ![n] = all_descendants(n)]
    /\ pc' = "returned"
    /\ UNCHANGED <<fn, config, lc, locals, line, parent, cache, log, exc, callers>>

\* node.family(**kw) for a node of the returned list; a keyword that is not a
\* parameter of family() is a TypeError
family_call ==
    /\ pc = "done"
    /\ \E n \in 1..Len(line), kw \in FamilyKwargs :
          /\ call' = [op |-> "family", self |-> n, kwargs |-> kw]
          /\ IF DOMAIN kw \subseteq family_params
                THEN /\ result' = family(n, bound(kw, "include_ancestors", TRUE),
                                            bound(kw, "include_children", TRUE),
                                            bound(kw, "include_all_descendants", TRUE))
                     /\ pc' = "returned"
                     /\ exc' = exc
                ELSE /\ pc' = "raised"
                     /\ exc' = "TypeError"
                     /\ result' = result
    /\ UNCHANGED <<fn, config, lc, locals, nodes, cache, log, callers>>

\* lines of the documents on which family() is explored
TreeLines ==
    { <<"a">>, <<" ","a">>, <<" ","b">>, <<" "," ","b">>, <<" "," "," ","c">> }

SpecFamily ==
    /\ InitWith({"parse_leading_spaces"} \X SeqsUpTo(TreeLines, MaxTree))
    /\ [][parse_leading_spaces \/ Return \/ family_call]_vars

(***************************************************************************)
(* Vocabulary of the properties.                                           *)
(***************************************************************************)
Range(s) == {s[i] : i \in 1..Len(s)}

Nodes == 1..Len(line)

Returned == pc = "done"

\* the sequence lo, lo+1, ..., hi
Interval(lo, hi) == [i \in 1..(hi - lo + 1) |-> lo + i - 1]

\* s is t with nothing but trailing whitespace removed
TrailingStripped(s, t) ==
    /\ Len(s) <= Len(t)
    /\ s = Take(t, Len(s))
    /\ \A i \in (Len(s) + 1)..Len(t) : t[i] \in Whitespace
    /\ s = <<>> \/ s[Len(s)] \notin Whitespace

(***************************************************************************)
(* C1: whenever a builder returns, the returned list holds one node per    *)
(* input line, the node at 0-based position i has line_num i+1, and its    *)
(* text is input line i with nothing but trailing whitespace removed;      *)
(* comment lines and blank lines are nodes like the others.                *)
(***************************************************************************)
C1_OneNodePerLine ==
    Returned =>
        /\ Len(dn_list) = Len(config)
        /\ \A i \in 1..Len(config) :
              /\ dn_list[i] = i
              /\ TrailingStripped(line[dn_list[i]], config[i])

\* a returned build with an indented line that lost its terminator, a
\* comment line and a blank line
C1_Witness ==
    /\ Returned
    /\ \E i \in Nodes : line[i] # config[i] /\ startswith(line[i], <<" ">>)
    /\ \E j \in Nodes : line[j] = <<"!">>
    /\ \E k \in Nodes : line[k] = <<>>

(***************************************************************************)
(* C2: after a completed build the parent/children relation is a forest:   *)
(* a node with parent p occurs exactly once in p.children, every element   *)
(* of a children list has that node as parent, children are in increasing  *)
(* line_num order, and a parent's line_num is smaller than its child's.    *)
(***************************************************************************)
C2_Forest ==
    Returned =>
        \A n \in Nodes :
            /\ parent[n] # None =>
                  /\ parent[n] \in Nodes
                  /\ parent[n] < n
                  /\ Cardinality({i \in 1..Len(children[parent[n]]) :
                                     children[parent[n]][i] = n}) = 1
            /\ \A i \in 1..Len(children[n]) : parent[children[n][i]] = n
            /\ \A i, j \in 1..Len(children[n]) :
                  i < j => children[n][i] < children[n][j]

\* a returned build with a node of two children and a grandchild
C2_Witness ==
    /\ Returned
    /\ \E n \in Nodes : Len(children[n]) >= 2
    /\ \E m \in Nodes : gen(m) >= 3

(***************************************************************************)
(* C3: in a built forest, walking the roots in list order, each followed   *)
(* by its all_descendants, reproduces the builder's flat list; the         *)
(* all_descendants of a node are exactly the nodes that have it among      *)
(* their ancestors, and they occupy the contiguous range of line numbers   *)
(* that follows the node.                                                  *)
(***************************************************************************)
RECURSIVE RootWalk(_)
RootWalk(i) ==
    IF i > Len(dn_list) THEN <<>>
    ELSE IF parent[dn_list[i]] = None
        THEN <<dn_list[i]>> \o all_descendants(dn_list[i]) \o RootWalk(i + 1)
    ELSE RootWalk(i + 1)

C3_PreOrder ==
    Returned =>
        /\ RootWalk(1) = dn_list
        /\ \A n \in Nodes :
              /\ all_descendants(n) = Interval(n + 1, n + Len(all_descendants(n)))
              /\ Range(all_descendants(n)) = {m \in Nodes : n \in Range(ancestors(m))}

\* a returned build with two roots, the first of which has a grandchild
C3_Witness ==
    /\ Returned
    /\ Cardinality({n \in Nodes : parent[n] = None}) >= 2
    /\ \E n, m \in Nodes : parent[n] = None /\ m \in Range(all_descendants(n))
                             /\ parent[m] # n

(***************************************************************************)
(* Levels as the properties read them off the node texts: the unit is the  *)
(* number of leading spaces of the first line that starts with a space,    *)
(* the level of a line is floor(leading spaces / unit).                    *)
(***************************************************************************)
LeadingSpaces(t) == RunLength(t, {" "})

IndentedNodes == {i \in Nodes : LeadingSpaces(line[i]) > 0}

Unit ==
    IF IndentedNodes = {} THEN 0
    ELSE LeadingSpaces(line[CHOOSE i \in IndentedNodes : \A j \in IndentedNodes : i <= j])

LevelOf(n) == IF Unit = 0 THEN 0 ELSE LeadingSpaces(line[n]) \div Unit

\* the build ran the indentation builder and it returned
IndentationBuilt ==
    /\ Returned
    /\ \/ fn = "parse_leading_spaces"
       \/ fn = "parse_autodetect"
            /\ autodetect_scan(config) = "parse_leading_spaces"

\* no banner line, no line opening a flat region, first line at level 0, no
\* line more than one level deeper than the line before it
Regular ==
    /\ \A n \in Nodes : ~startswith(line[n], kw_banner) /\ ~opens_flat_region(line[n])
    /\ Nodes # {} => LevelOf(1) = 0
    /\ \A n \in Nodes : n > 1 => LevelOf(n) <= LevelOf(n - 1) + 1

NearestBefore(n, level) ==
    LET before == {m \in Nodes : m < n /\ LevelOf(m) = level}
    IN  IF before = {} THEN None
        ELSE CHOOSE m \in before : \A k \in before : k <= m

(***************************************************************************)
(* C4: indentation builder on regular input: every level-0 line is a root  *)
(* and every line at level L > 0 has the nearest preceding line at level   *)
(* L-1 as parent, so gen = level + 1; an unindented line after an          *)
(* indented block is a root.                                               *)
(***************************************************************************)
C4_RegularIndentation ==
    (IndentationBuilt /\ Regular) =>
        \A n \in Nodes :
            /\ LevelOf(n) = 0 => parent[n] = None
            /\ LevelOf(n) > 0 => /\ parent[n] # None
                                 /\ parent[n] = NearestBefore(n, LevelOf(n) - 1)
            /\ gen(n) = LevelOf(n) + 1

\* a regular build with a line at level 2 and a later unindented line
C4_Witness ==
    /\ IndentationBuilt
    /\ Regular
    /\ \E n, m \in Nodes : LevelOf(n) = 2 /\ n < m /\ LevelOf(m) = 0 /\ parent[m] = None

(***************************************************************************)
(* Regions as the properties read them off the node texts.                 *)
(***************************************************************************)
MinOf(S) == CHOOSE i \in S : \A j \in S : i <= j

\* the first node after n whose text satisfies Test, None if there is none
FirstAfter(n, Test(_)) ==
    LET later == {m \in Nodes : m > n /\ Test(line[m])}
    IN  IF later = {} THEN None ELSE MinOf(later)

BannerLines == {b \in Nodes : banner_match(line[b]) # NoDelimiter}

\* the line that ends the banner opened by b: the first later line whose
\* text contains the delimiter (None: the input ends first)
BannerEnd(b) ==
    LET HasDelimiter(t) == contains(t, banner_match(line[b]))
    IN  FirstAfter(b, HasDelimiter)

\* the lines of the banner region opened by b, the delimiter line included
BannerRegion(b) ==
    {n \in Nodes : n > b /\ (BannerEnd(b) = None \/ n <= BannerEnd(b))}

(***************************************************************************)
(* C5: every line after a line `banner <word> <delimiter>`, up to and      *)
(* including the first line that contains the delimiter, is a direct       *)
(* child of the banner node whatever its indentation; the banner node has  *)
(* no other children and the line after the delimiter line is not one of   *)
(* its descendants.                                                        *)
(***************************************************************************)
C5_BannerRegion ==
    (IndentationBuilt /\ BannerLines # {}) =>
        LET b == MinOf(BannerLines)
        IN  /\ \A n \in BannerRegion(b) : parent[n] = b
            /\ Range(children[b]) = BannerRegion(b)
            /\ \A n \in Nodes : (BannerEnd(b) # None /\ n = BannerEnd(b) + 1)
                                    => b \notin Range(ancestors(n))

(***************************************************************************)
(* Flat regions.                                                           *)
(***************************************************************************)
FlatOpeners == {o \in Nodes : opens_flat_region(line[o])}

IsUnindented(t) == ~startswith(t, <<" ">>)

\* the first line after o that does not start with a space (None: the
\* input ends first); it ends the region normally if it starts with 'end-'
FlatStop(o) == FirstAfter(o, IsUnindented)

EndsNormally(o) == FlatStop(o) # None /\ startswith(line[FlatStop(o)], kw_end)

\* the body lines of the region opened by o
FlatBody(o) == {n \in Nodes : n > o /\ (FlatStop(o) = None \/ n < FlatStop(o))}

NoBannerOpenAt(o) ==
    \A b \in BannerLines :
        b < o => /\ BannerEnd(b) # None
                 /\ BannerEnd(b) < o
                 /\ \A b2 \in BannerLines : b2 > b => b2 > BannerEnd(b)

NextLine == rstrip(config[lc + 1])

AbnormalEndPending ==
    /\ pc = "parse_leading_spaces"
    /\ lc < Len(config)
    /\ ignore_space_levels
    /\ IsUnindented(NextLine)
    /\ ~startswith(NextLine, kw_end)

\* the opening line of the region that is open
OpenRegion == CHOOSE o \in FlatOpeners : \A q \in FlatOpeners : q <= o

C7_AbnormalEnd ==
    [][AbnormalEndPending =>
          /\ pc' = "parse_leading_spaces"
          /\ lc' = lc + 1
          /\ log' = Append(log, [kind |-> "no_end", lc |-> lc + 1,
                                 section |-> OpenRegion])
          /\ ignore_space_levels' = opens_flat_region(NextLine)
          /\ parent'[lc + 1] = None
          /\ children'[OpenRegion] = Interval(OpenRegion + 1, lc)]_vars

(***************************************************************************)
(* C8: the indentation builder never raises: whatever the input lines, it  *)
(* finishes its pass and returns its node list.                            *)
(***************************************************************************)
C8_NeverRaises ==
    fn = "parse_leading_spaces" => pc # "raised"

(***************************************************************************)
(* C9: a line whose level exceeds current_space_level by more than one     *)
(* logs a warning, pushes exactly one node, the previous line's, and       *)
(* leaves current_space_level one higher than it was, not at the raw       *)
(* level; outside banner capture the stack is as long as the current       *)
(* level after the line.                                                   *)
(***************************************************************************)
LevelJumpPending ==
    /\ pc = "parse_leading_spaces"
    /\ lc < Len(config)
    /\ new_space_level(NextLine, multiplier_after(NextLine, space_multiplier),
                       ignore_space_levels) > current_space_level + 1

C9_LevelJumpClamp ==
    [][(LevelJumpPending /\ pc' = "parse_leading_spaces") =>
          /\ log' = Append(log, [kind |-> "level_jump", lc |-> lc + 1])
          /\ parent'[lc + 1] = current_dn
          /\ current_space_level' = current_space_level + 1
          /\ banner_delimiter' = NoDelimiter =>
                Len(dn_stack') = current_space_level']_vars

(***************************************************************************)
(* Brace structure as the properties read it off the node texts.           *)
(***************************************************************************)
BracedBuilt ==
    /\ Returned
    /\ \/ fn = "parse_braced"
       \/ fn = "parse_autodetect"
            /\ autodetect_scan(config) = "parse_braced"

LastChar(t) == IF t = <<>> THEN "" ELSE t[Len(t)]

\* the first character after the leading whitespace is '#'
IsHashComment(t) ==
    LET k == RunLength(t, Whitespace) IN k < Len(t) /\ t[k + 1] = "#"

OpensText(t) == LastChar(t) = "{" /\ ~IsHashComment(t)

ClosesText(t) == LastChar(t) = "}" /\ ~IsHashComment(t)

\* number of blocks open when line n is read
DepthBefore(n) ==
    Cardinality({m \in Nodes : m < n /\ OpensText(line[m])})
    - Cardinality({m \in Nodes : m < n /\ ClosesText(line[m])})

\* the opening line of the innermost block open when line n is read
EnclosingOpener(n) ==
    LET open == {m \in Nodes : m < n /\ OpensText(line[m])
                                 /\ DepthBefore(m) = DepthBefore(n) - 1}
    IN  IF DepthBefore(n) = 0 \/ open = {} THEN None
        ELSE CHOOSE m \in open : \A k \in open : k <= m

(***************************************************************************)
(* C10: braced builder: a line is attached to the top of the open-node     *)
(* stack (root if empty); every line ending with '{' is pushed after being *)
(* attached, so the next line is its child; every line ending with '}'     *)
(* pops after being attached, so it is the last child of the block it      *)
(* closes and the next line is a sibling of the block's opening line.      *)
(***************************************************************************)
C10_BracedAnyLine ==
    BracedBuilt =>
        \A n \in Nodes :
            /\ (LastChar(line[n]) = "{" /\ n + 1 \in Nodes) => parent[n + 1] = n
            /\ (LastChar(line[n]) = "}" /\ parent[n] # None) =>
                  /\ children[parent[n]][Len(children[parent[n]])] = n
                  /\ n + 1 \in Nodes => parent[n + 1] = parent[parent[n]]

\* C10, for lines that are not '#' comments: every node's parent is the
\* opening line of the innermost block open when the line is read; the line
\* after a line ending with '{' is its child; a line ending with '}' is the
\* last child of the block it closes and the line after it is a sibling of
\* the block's opening line; a comment line neither pushes nor pops
C10_BracedNonComment ==
    BracedBuilt =>
        \A n \in Nodes :
            /\ parent[n] = EnclosingOpener(n)
            /\ (OpensText(line[n]) /\ n + 1 \in Nodes) => parent[n + 1] = n
            /\ ClosesText(line[n]) =>
                  /\ parent[n] # None
                  /\ children[parent[n]][Len(children[parent[n]])] = n
                  /\ n + 1 \in Nodes => parent[n + 1] = parent[parent[n]]
            /\ (IsHashComment(line[n]) /\ n + 1 \in Nodes) => parent[n + 1] = parent[n]

\* a braced build with a block that holds a comment ending in '{' and is
\* closed, followed by a further line
C10_Witness ==
    /\ BracedBuilt
    /\ \E o, c, e \in Nodes :
          /\ OpensText(line[o])
          /\ IsHashComment(line[c]) /\ LastChar(line[c]) = "{" /\ parent[c] = o
          /\ ClosesText(line[e]) /\ parent[e] = o /\ c < e
          /\ e + 1 \in Nodes /\ parent[e + 1] = parent[o]

(***************************************************************************)
(* Vocabulary of C11.                                                      *)
(***************************************************************************)
\* the first character after the leading whitespace is '!' or '#'
IsComment(t) ==
    LET k == RunLength(t, Whitespace) IN k < Len(t) /\ t[k + 1] \in {"!", "#"}

\* the last character that is not whitespace
LastNonSpace(t) ==
    LET k == {i \in 1..Len(t) : t[i] \notin Whitespace}
    IN  IF k = {} THEN "" ELSE t[CHOOSE i \in k : \A j \in k : j <= i]

\* the first 50 lines of cfg that are not comments
ScannedLines(cfg) ==
    LET nc == SelectSeq(cfg, LAMBDA t : ~IsComment(t))
    IN  SubSeq(nc, 1, IF Len(nc) < 50 THEN Len(nc) ELSE 50)

CountEnding(ls, ch) == Cardinality({i \in 1..Len(ls) : LastNonSpace(ls[i]) = ch})

LooksBraced(cfg) ==
    \A ch \in {"{", "}", ";"} : CountEnding(ScannedLines(cfg), ch) > 3

\* parse_autodetect has just handed the input to one of the builders
Dispatched ==
    /\ fn = "parse_autodetect"
    /\ pc \in {"parse_braced", "parse_leading_spaces"}
    /\ lc = 0

(***************************************************************************)
(* C11: auto-detection selects the braced builder if and only if, among    *)
(* the first 50 lines that are not comments (a comment being a line whose  *)
(* trimmed text starts with '!' or '#'), the lines whose last non-space    *)
(* character is '{', those ending in '}' and those ending in ';' each      *)
(* number more than 3; in every other case it selects the indentation      *)
(* builder.                                                                *)
(***************************************************************************)
C11_AutodetectChoice ==
    Dispatched => (pc = "parse_braced" <=> LooksBraced(config))

(***************************************************************************)
(* Vocabulary of C12 - C14: the family relations read off the parent       *)
(* links, without the list-building code.                                  *)
(***************************************************************************)
RECURSIVE AncestorSet(_)
AncestorSet(n) ==
    IF parent[n] = None THEN {} ELSE {parent[n]} \cup AncestorSet(parent[n])

DescendantSet(n) == {m \in Nodes : n \in AncestorSet(m)}

\* the members of S in document (pre-order) sequence
RECURSIVE InDocumentOrder(_)
InDocumentOrder(S) ==
    IF S = {} THEN <<>>
    ELSE LET m == CHOOSE x \in S : \A y \in S : x <= y
         IN  <<m>> \o InDocumentOrder(S \ {m})

\* the ancestors of n from the root down to the immediate parent
RootToParent(n) ==
    [i \in 1..Cardinality(AncestorSet(n)) |->
        CHOOSE a \in AncestorSet(n) : Cardinality(AncestorSet(a)) = i - 1]

FamilyReturned == call.op = "family" /\ pc = "returned"

\* the part of a family() result that follows the subject
AfterSubject(res, n) ==
    LET i == CHOOSE k \in 1..Len(res) : res[k] = n
    IN  SubSeq(res, i + 1, Len(res))

\* the value a family() call binds to an include_ parameter
Given(name) == bound(call.kwargs, name, TRUE)

(***************************************************************************)
(* C12: for every node of a built forest, family() with all default        *)
(* options is the node's ancestors, root first and immediate parent last,   *)
(* then the node itself, then all its descendants in pre-order.            *)
(***************************************************************************)
C12_FamilyDefaults ==
    (FamilyReturned /\ DOMAIN call.kwargs = {}) =>
        result = RootToParent(call.self) \o <<call.self>>
                    \o InDocumentOrder(DescendantSet(call.self))

\* family() was called with defaults on a node that has a parent and a
\* grandchild
C12_Witness ==
    /\ FamilyReturned /\ DOMAIN call.kwargs = {}
    /\ Cardinality(AncestorSet(call.self)) >= 1
    /\ \E m \in DescendantSet(call.self) : parent[m] # call.self

(***************************************************************************)
(* C13 as stated: whenever include_all_descendants is true the result of   *)
(* family() contains the full pre-order descendant list of the subject,    *)
(* whatever the value of include_children.                                 *)
(***************************************************************************)
C13_AllDescendantsSupersedes ==
    (FamilyReturned /\ Given("include_all_descendants")) =>
        AfterSubject(result, call.self) = InDocumentOrder(DescendantSet(call.self))

(***************************************************************************)
(* C13 amended: include_all_descendants takes effect only together with    *)
(* include_children.  With both true the subject is followed by its full   *)
(* pre-order descendant list; with include_children true and               *)
(* include_all_descendants false by its immediate children; with           *)
(* include_children false by nothing, whatever include_all_descendants.    *)
(***************************************************************************)
C13_ChildrenGateDescendants ==
    FamilyReturned =>
        AfterSubject(result, call.self) =
            IF Given("include_children") /\ Given("include_all_descendants")
                THEN InDocumentOrder(DescendantSet(call.self))
            ELSE IF Given("include_children")
                THEN InDocumentOrder({m \in Nodes : parent[m] = call.self})
            ELSE <<>>

\* family(include_children=False), include_all_descendants bound to True, was
\* called on a node that has descendants
C13_Witness ==
    /\ FamilyReturned
    /\ ~Given("include_children") /\ Given("include_all_descendants")
    /\ DescendantSet(call.self) # {}
    /\ AfterSubject(result, call.self) = <<>>

\* the node reached from n by d steps up the parent links, stopping at a root
RECURSIVE Climb(_, _)
Climb(n, d) == IF d = 0 \/ parent[n] = None THEN n ELSE Climb(parent[n], d - 1)

(***************************************************************************)
(* C14: family() with cousin_depth = d >= 0 walks up the parent links d    *)
(* times, stopping at a root reached earlier, and returns the family of    *)
(* the node reached with all its descendants; a negative cousin_depth is   *)
(* a usage error.                                                          *)
(***************************************************************************)
C14_CousinDepth ==
    (call.op = "family" /\ "cousin_depth" \in DOMAIN call.kwargs
        /\ pc \in {"returned", "raised"}) =>
        LET d == call.kwargs["cousin_depth"]
            m == Climb(call.self, d)
        IN  IF d < 0 THEN pc = "raised"
            ELSE /\ pc = "returned"
                 /\ result = RootToParent(m) \o <<m>>
                                \o InDocumentOrder(DescendantSet(m))

(***************************************************************************)
(* Address extraction: the patterns of DocumentLine.ip_patterns            *)
(* (DocumentLine.py 47-54) as re.search finds them.  A match is the pair   *)
(* <<first, last>> of the positions of its first and last character;       *)
(* NoMatch if the pattern is found nowhere.  re.search returns the match   *)
(* with the leftmost start; at that start the quantifiers are greedy and   *)
(* give characters back only as far as the rest of the pattern needs.      *)
(***************************************************************************)
Digit == {"0","1","2","3","4","5","6","7","8","9"}

HexDigit == Digit \cup {"a","b","c","d","e","f","A","B","C","D","E","F"}

NoMatch == <<>>

\* the character at position i, "" outside the string
CharAt(s, i) == IF i \in 1..Len(s) THEN s[i] ELSE ""

\* length of the run of characters of cs that starts at position i
RunAt(s, i, cs) == IF i \in 1..Len(s) THEN RunLength(Drop(s, i - 1), cs) ELSE 0

\* \d{1,3}\. at position i: the position after the dot, 0 if no match
octet_dot(s, i) ==
    LET k == RunAt(s, i, Digit)
    IN  IF k \in 1..3 /\ CharAt(s, i + k) = "." THEN i + k + 1 ELSE 0

\* \d{1,3}\.\d{1,3}\.\d{1,3}\. at position i: the position after the third
\* dot, 0 if no match
three_octets(s, i) == octet_dot(s, octet_dot(s, octet_dot(s, i)))

\* the final \d{1,3} at position j followed by the rest of the pattern: the
\* longest of 3, 2, 1 digits after which the rest matches, Rest being the
\* set of positions where it does; the position of the last digit, 0 if no
\* match or if j = 0
last_octet(s, j, Rest) ==
    LET ok == {n \in 1..Min(RunAt(s, j, Digit), 3) : j + n \in Rest}
    IN  IF ok = {} THEN 0 ELSE j + (CHOOSE n \in ok : \A m \in ok : m <= n) - 1

\* (?<![\.\-]) before position i
not_after_dot_dash(s, i) == CharAt(s, i - 1) \notin {".", "-"}

\* the dotted quad of ipv4_addr at position i with the lookahead (?![\.\-]):
\* position of its last character, 0 if no match
quad_at(s, i) ==
    last_octet(s, three_octets(s, i),
               {p \in 1..(Len(s) + 1) : CharAt(s, p) \notin {".", "-"}})

ipv4_addr_at(s, i) == IF not_after_dot_dash(s, i) THEN quad_at(s, i) ELSE 0

\* quad, a space, quad, lookahead; e is the end of the first quad
ipv4_addr_netmask_at(s, i) ==
    LET e == last_octet(s, three_octets(s, i),
                 {p \in 1..(Len(s) + 1) : CharAt(s, p) = " " /\ quad_at(s, p + 1) # 0})
    IN  IF not_after_dot_dash(s, i) /\ e # 0 THEN quad_at(s, e + 2) ELSE 0

\* quad, a slash, \d{1,2}; e is the end of the quad
ipv4_cidr_at(s, i) ==
    LET e == last_octet(s, three_octets(s, i),
                 {p \in 1..(Len(s) + 1) : CharAt(s, p) = "/" /\ RunAt(s, p + 1, Digit) >= 1})
    IN  IF not_after_dot_dash(s, i) /\ e # 0
            THEN e + 1 + Min(RunAt(s, e + 2, Digit), 2)
            ELSE 0

\* \d+\. at position i: the position after the dot, 0 if no match
digits_dot(s, i) ==
    LET k == RunAt(s, i, Digit)
    IN  IF k >= 1 /\ CharAt(s, i + k) = "." THEN i + k + 1 ELSE 0

\* \d+\.\d+\.\d+\.\d+\. at position i
snmp_oid_at(s, i) ==
    LET d == digits_dot(s, digits_dot(s, digits_dot(s, digits_dot(s, i))))
    IN  IF d = 0 THEN 0 ELSE d - 1

\* [0-9A-Fa-f]{0,4}: at position i: the position after the colon, 0 if no match
hextet_colon(s, i) ==
    LET k == RunAt(s, i, HexDigit)
    IN  IF k <= 4 /\ CharAt(s, i + k) = ":" THEN i + k + 1 ELSE 0

\* [0-9A-Fa-f]{0,4}:[0-9A-Fa-f]{0,4}:[0-9A-Fa-f:]*
ipv6_addr_at(s, i) ==
    LET b == hextet_colon(s, hextet_colon(s, i))
    IN  IF b = 0 THEN 0 ELSE b - 1 + RunAt(s, b, HexDigit \cup {":"})

\* the same followed by /\d+
ipv6_net_at(s, i) ==
    LET e == ipv6_addr_at(s, i)
    IN  IF e # 0 /\ CharAt(s, e + 1) = "/" /\ RunAt(s, e + 2, Digit) >= 1
            THEN e + 1 + RunAt(s, e + 2, Digit)
            ELSE 0

\* the dictionary ip_patterns: the match of the pattern of that name at
\* position i of s (position of its last character, 0 if no match)
ip_patterns(name, s, i) ==
    CASE name = "ipv6_net"          -> ipv6_net_at(s, i)
      [] name = "ipv6_addr"         -> ipv6_addr_at(s, i)
      [] name = "snmp_oid"          -> snmp_oid_at(s, i)
      [] name = "ipv4_cidr"         -> ipv4_cidr_at(s, i)
      [] name = "ipv4_addr_netmask" -> ipv4_addr_netmask_at(s, i)
      [] name = "ipv4_addr"         -> ipv4_addr_at(s, i)

\* the match with the leftmost start, ends[i] being the match at position i
leftmost(ends) ==
    LET starts == {i \in DOMAIN ends : ends[i] # 0}
    IN  IF starts = {} THEN NoMatch
        ELSE LET first == CHOOSE i \in starts : \A j \in starts : i <= j
             IN  <<first, ends[first]>>

\* re.search(ip_patterns[name], s)
re_search(name, s) == leftmost([i \in 1..Len(s) |-> ip_patterns(name, s, i)])

(***************************************************************************)
(* Conversion of the matched text by the ipaddress library, as called by   *)
(* _parse_ip_addr and _parse_ip_net (DocumentLine.py 306-331).  An IPv4    *)
(* address is the tuple of its 4 octets, an IPv6 address the tuple of its  *)
(* 8 hextets, a network the pair <<network address, prefix length>>.       *)
(* Invalid stands for the ValueError the library raises.                   *)
(***************************************************************************)
Invalid == <<>>

\* int(c, 16) of one character
HexValue(c) ==
    CASE c = "0" -> 0 [] c = "1" -> 1 [] c = "2" -> 2 [] c = "3" -> 3
      [] c = "4" -> 4 [] c = "5" -> 5 [] c = "6" -> 6 [] c = "7" -> 7
      [] c = "8" -> 8 [] c = "9" -> 9
      [] c \in {"a", "A"} -> 10 [] c \in {"b", "B"} -> 11
      [] c \in {"c", "C"} -> 12 [] c \in {"d", "D"} -> 13
      [] c \in {"e", "E"} -> 14 [] c \in {"f", "F"} -> 15

\* int(s, base), for a non-empty s, cut off at 65536: Python integers are
\* unbounded and no value above 65535 is accepted anywhere
RECURSIVE int(_, _)
int(s, base) ==
    IF s = <<>> THEN 0
    ELSE Min(int(Take(s, Len(s) - 1), base) * base + HexValue(s[Len(s)]), 65536)

\* str.split(sep) for a one-character separator
RECURSIVE split(_, _)
split(s, sep) ==
    LET k == RunLength(s, {s[i] : i \in 1..Len(s)} \ {sep})
    IN  IF k = Len(s) THEN <<s>> ELSE <<Take(s, k)>> \o split(Drop(s, k + 1), sep)

IsDigits(s) == s # <<>> /\ \A i \in 1..Len(s) : s[i] \in Digit

\* IPv4Address._parse_octet
octet_ok(s) ==
    /\ IsDigits(s)
    /\ Len(s) <= 3
    /\ Len(s) = 1 \/ s[1] # "0"
    /\ int(s, 10) <= 255

\* the first of two conversions that succeeds
OrElse(a, b) == IF a # Invalid THEN a ELSE b

\* IPv4Address(s)
ipv4_address(s) ==
    LET octets == split(s, ".")
    IN  IF Len(octets) = 4 /\ \A i \in 1..4 : octet_ok(octets[i])
            THEN [i \in 1..4 |-> int(octets[i], 10)]
            ELSE Invalid

\* IPv6Address._parse_hextet
hextet_ok(s) == s # <<>> /\ Len(s) <= 4 /\ \A i \in 1..Len(s) : s[i] \in HexDigit

\* IPv6Address(s) for a string without '.', '%' and '/'
ipv6_address(s) ==
    LET parts == split(s, ":")
        n     == Len(parts)
        empty == {i \in 2..(n - 1) : parts[i] = <<>>}
    IN  IF n < 3 \/ n > 9 \/ Cardinality(empty) > 1 THEN Invalid
        ELSE IF empty = {}
            THEN \* no '::'
                 IF n = 8 /\ \A i \in 1..8 : hextet_ok(parts[i])
                     THEN [i \in 1..8 |-> int(parts[i], 16)]
                     ELSE Invalid
        ELSE LET skip_index == CHOOSE i \in empty : TRUE
                 parts_hi == IF parts[1] = <<>> THEN skip_index - 2 ELSE skip_index - 1
                 parts_lo == IF parts[n] = <<>> THEN n - skip_index - 1 ELSE n - skip_index
             IN  IF \/ parts[1] = <<>> /\ parts_hi # 0
                    \/ parts[n] = <<>> /\ parts_lo # 0
                    \/ 8 - (parts_hi + parts_lo) < 1
                    \/ \E i \in 1..parts_hi : ~hextet_ok(parts[i])
                    \/ \E i \in (n - parts_lo + 1)..n : ~hextet_ok(parts[i])
                     THEN Invalid
                     ELSE [i \in 1..8 |->
                             IF i <= parts_hi THEN int(parts[i], 16)
                             ELSE IF i > 8 - parts_lo THEN int(parts[n - (8 - i)], 16)
                             ELSE 0]

\* ipaddress.ip_address(s)
ip_address(s) == OrElse(ipv4_address(s), ipv6_address(s))

RECURSIVE Pow2(_)
Pow2(n) == IF n = 0 THEN 1 ELSE 2 * Pow2(n - 1)

\* the address a & netmask(prefixlen); w is the number of bits of one group
\* of a, 8 for IPv4 and 16 for IPv6
masked(a, prefixlen) ==
    LET w == IF Len(a) = 4 THEN 8 ELSE 16
    IN  [i \in 1..Len(a) |->
            LET keep == Min(w, IF prefixlen > w * (i - 1) THEN prefixlen - w * (i - 1) ELSE 0)
            IN  (a[i] \div Pow2(w - keep)) * Pow2(w - keep)]

\* the first of two prefix lengths that is one, -1 standing for none
PrefixOrElse(p, q) == IF p # -1 THEN p ELSE q

\* _prefix_from_ip_int for the mask m given as octets: the number of leading
\* ones if m is ones followed by zeros, -1 otherwise
prefix_from_ip_int(m) ==
    LET ok == {p \in 0..32 : masked(<<255, 255, 255, 255>>, p) = m}
    IN  IF ok = {} THEN -1 ELSE CHOOSE p \in ok : TRUE

\* _prefix_from_prefix_string: -1 for NetmaskValueError
prefix_from_prefix_string(s, max_prefixlen) ==
    IF IsDigits(s) /\ int(s, 10) <= max_prefixlen THEN int(s, 10) ELSE -1

\* IPv4Network._make_netmask: a prefix length, else a netmask, else a hostmask
ipv4_prefixlen(s) ==
    LET m == ipv4_address(s)
    IN  PrefixOrElse(prefix_from_prefix_string(s, 32),
                     IF m = Invalid THEN -1
                     ELSE PrefixOrElse(prefix_from_ip_int(m),
                                       prefix_from_ip_int([i \in 1..4 |-> 255 - m[i]])))

\* the interface <<ip, network>> of address a and prefix length p
interface_of(a, p) ==
    IF a = Invalid \/ p = -1 THEN Invalid ELSE <<a, <<masked(a, p), p>> >>

\* ipaddress.ip_interface(s) for s with one '/': <<ip, network>>
ip_interface(s) ==
    LET ap == split(s, "/")
    IN  IF Len(ap) # 2 THEN Invalid
        ELSE OrElse(interface_of(ipv4_address(ap[1]), ipv4_prefixlen(ap[2])),
                    interface_of(ipv6_address(ap[1]), prefix_from_prefix_string(ap[2], 128)))

\* the network of the interface i if no host bits are set
strict_network(i) == IF i = Invalid \/ i[2][1] # i[1] THEN Invalid ELSE i[2]

\* ipaddress.ip_network(s, strict=True): the network, Invalid also if host
\* bits are set
ip_network(s) == strict_network(ip_interface(s))

(***************************************************************************)
(* _parse_ip_addr, _parse_ip_net and the cascade of _gen_ip_addrs_nets     *)
(* (DocumentLine.py 214-331).  The generator yields pairs <<addr, net>>;   *)
(* net is NoNet where the code yields None.                                *)
(***************************************************************************)
NoNet == <<>>

\* _parse_ip_addr: Invalid where the code returns None
parse_ip_addr(ip) ==
    LET ip_addr == ip_address(ip)
    IN  IF ip_addr = Invalid THEN Invalid ELSE <<ip_addr, NoNet>>

\* _parse_ip_net: ip_network(strict=True) first, ip_interface if that fails
parse_ip_net(ip) ==
    LET ip_net  == ip_network(ip)
        ip_intf == ip_interface(ip)
    IN  OrElse(IF ip_net = Invalid THEN Invalid ELSE <<ip_net[1], ip_net>>,
               IF ip_intf = Invalid THEN Invalid ELSE <<ip_intf[1], ip_intf[2]>>)

\* lambda x: '/'.join(x.split()) on a match of ipv4_addr_netmask, whose only
\* whitespace is the one space between address and netmask
join_slash(x) == [i \in 1..Len(x) |-> IF x[i] = " " THEN "/" ELSE x[i]]

\* match_transform(x): lambda x: x by default, join_slash for the
\* address-netmask pattern
match_transform(name, x) == IF name = "join_slash" THEN join_slash(x) ELSE x

\* convert_fn(x): one of the two static methods
convert_fn(name, x) ==
    IF name = "_parse_ip_net" THEN parse_ip_net(x) ELSE parse_ip_addr(x)

\* what try_search_and_parse returns (result) and the rest of the line it
\* leaves (line), r being what convert_fn gave for the match m
searched(rest, m, r) ==
    [result |-> r, line |-> IF r = Invalid THEN rest ELSE Drop(rest, m[2])]

\* try_search_and_parse from the match m on
matched(rest, m, convert, transform) ==
    IF m = NoMatch THEN searched(rest, m, Invalid)
    ELSE searched(rest, m,
                  convert_fn(convert, match_transform(transform, SubSeq(rest, m[1], m[2]))))

\* try_search_and_parse on the rest `rest` of the line
try_search_and_parse(rest, pattern, convert, transform) ==
    matched(rest, re_search(pattern, rest), convert, transform)

\* the five attempts of one pass of the while-loop, in the order of the
\* if/elif chain: pattern, convert_fn, match_transform
Attempts ==
    << <<"ipv6_net", "_parse_ip_net", "identity">>,
       <<"ipv6_addr", "_parse_ip_addr", "identity">>,
       <<"ipv4_cidr", "_parse_ip_net", "identity">>,
       <<"ipv4_addr_netmask", "_parse_ip_net", "join_slash">>,
       <<"ipv4_addr", "_parse_ip_addr", "identity">> >>

\* the first of the attempts tried that converted, the last one if none did
first_converted(tried) ==
    LET ok == {k \in DOMAIN tried : tried[k].result # Invalid}
    IN  IF ok = {} THEN tried[Len(tried)]
        ELSE tried[CHOOSE k \in ok : \A j \in ok : k <= j]

\* one pass of the while-loop of _gen_ip_addrs_nets
cascade(rest) ==
    first_converted([k \in 1..Len(Attempts) |->
        try_search_and_parse(rest, Attempts[k][1], Attempts[k][2], Attempts[k][3])])

\* the while-loop: the pairs yielded from the rest of the line on
RECURSIVE gen_loop(_)
RECURSIVE gen_next(_)
gen_loop(rest) == IF Len(rest) = 0 THEN <<>> ELSE gen_next(cascade(rest))

\* the end of one pass, t being what its attempts gave: yield and go on with
\* the rest of the line, or return
gen_next(t) ==
    IF t.result = Invalid THEN <<>> ELSE <<t.result>> \o gen_loop(t.line)

\* _gen_ip_addrs_nets for the line text l
gen_ip_addrs_nets(l) ==
    IF re_search("snmp_oid", l) # NoMatch THEN <<>> ELSE gen_loop(l)

\* _create_ip_sets: the two frozensets made of the pairs yielded
addrs_of(addrs_nets) == {addrs_nets[i][1] : i \in 1..Len(addrs_nets)}

nets_of(addrs_nets) == {addrs_nets[i][2] : i \in 1..Len(addrs_nets)} \ {NoNet}

(***************************************************************************)
(* DocumentLine.has_ip (DocumentLine.py 175-204) with the properties       *)
(* ip_addrs / ip_nets (74-97) and _create_ip_sets (206-212).  The query    *)
(* ip_obj is a record: its type, and the address and the network it holds. *)
(***************************************************************************)
AddressTypes == {"IPv4Address", "IPv6Address"}

NetworkTypes == {"IPv4Network", "IPv6Network"}

InterfaceTypes == {"IPv4Interface", "IPv6Interface"}

\* faulty variant of has_ip_raises: the `case _` branch is left out
has_ip_never_raises(ip_obj) == FALSE

\* lines 201-203
has_ip_raises(ip_obj) ==
    ip_obj.type \notin AddressTypes \cup NetworkTypes \cup InterfaceTypes

\* lines 193-204 on the sets addrs and nets of the node
has_ip_match(ip_obj, addrs, nets) ==
    IF ip_obj.type \in AddressTypes THEN ip_obj.ip \in addrs
    ELSE IF ip_obj.type \in NetworkTypes THEN ip_obj.network \in nets
    ELSE ip_obj.ip \in addrs /\ ip_obj.network \in nets

\* ipaddress objects passed to has_ip
Address(a) == [type |-> IF Len(a) = 4 THEN "IPv4Address" ELSE "IPv6Address",
               ip |-> a, network |-> NoNet]

Network(a, prefixlen) ==
    [type |-> IF Len(a) = 4 THEN "IPv4Network" ELSE "IPv6Network",
     ip |-> Invalid, network |-> <<masked(a, prefixlen), prefixlen>>]

Interface(a, prefixlen) ==
    [type |-> IF Len(a) = 4 THEN "IPv4Interface" ELSE "IPv6Interface",
     ip |-> a, network |-> <<masked(a, prefixlen), prefixlen>>]

\* the queries explored
Queries ==
    { Address(<<1, 2, 3, 1>>), Address(<<1, 2, 3, 2>>), Address(<<9, 9, 9, 9>>),
      Address(<<0, 0, 0, 0, 0, 0, 0, 1>>),
      Network(<<1, 2, 3, 0>>, 30), Network(<<1, 2, 3, 0>>, 24), Network(<<9, 0, 0, 0>>, 8),
      Interface(<<1, 2, 3, 1>>, 30), Interface(<<1, 2, 3, 1>>, 24),
      Interface(<<1, 2, 3, 2>>, 30), Interface(<<9, 9, 9, 9>>, 8),
      [type |-> "str", ip |-> Invalid, network |-> NoNet] }

\* node.has_ip(ip_obj) for a node of the returned list; the first access to
\* ip_addrs or ip_nets fills the cache of the node
has_ip ==
    /\ pc = "done"
    /\ \E n \in 1..Len(line) : \E yielded \in {gen_ip_addrs_nets(line[n])} :
          LET addrs == IF ips_parsed[n] THEN ip_addrs[n][1] ELSE addrs_of(yielded)
              nets  == IF ips_parsed[n] THEN ip_nets[n][1] ELSE nets_of(yielded)
          IN  \E ip_obj \in Queries :
                /\ call' = [op |-> "has_ip", self |-> n, ip_obj |-> ip_obj]
                /\ IF has_ip_raises(ip_obj)
                      THEN /\ pc' = "raised"
                           /\ exc' = "ValueError"
                           /\ UNCHANGED <<result, cache>>
                      ELSE /\ ip_addrs' = [ip_addrs EXCEPT ![n] = <<addrs>>]
                           /\ ip_nets' = [ip_nets EXCEPT ![n] = <<nets>>]
                           /\ ips_parsed' = [ips_parsed EXCEPT ![n] = TRUE]
                           /\ result' = has_ip_match(ip_obj, addrs, nets)
                           /\ pc' = "returned"
                           /\ exc' = exc
    /\ UNCHANGED <<fn, config, lc, locals, nodes, log, callers>>

(***************************************************************************)
(* The lines on which has_ip is explored: up to MaxTokens of the tokens    *)
(* below, joined by single spaces.                                         *)
(***************************************************************************)
IPTokens ==
    { <<"i","p">>,
      <<"1",".","2",".","3",".","1">>,
      <<"2","5","5",".","2","5","5",".","2","5","5",".","2","5","2">>,
      <<"9",".","0",".","0",".","0","/","8">>,
      <<":",":","1">> }

RECURSIVE JoinSpace(_)
JoinSpace(ts) ==
    IF Len(ts) = 1 THEN ts[1] ELSE ts[1] \o <<" ">> \o JoinSpace(Tail(ts))

\* one-line documents
IPLines == { JoinSpace(ts) : ts \in SeqsUpTo(IPTokens, MaxTokens) \ {<<>>} }

SpecIP ==
    /\ InitWith({"parse_leading_spaces"} \X { <<l>> : l \in IPLines })
    /\ [][parse_leading_spaces \/ Return \/ has_ip]_vars

(***************************************************************************)
(* Concurrent first accesses to the address cache of one node: the         *)
(* getters ip_addrs / ip_nets (73-97), has_ip (193-204) and                *)
(* _create_ip_sets (206-212), one read or write of an attribute per step.  *)
(* A caller is at "check" (the test of _ips_parsed), at a statement of     *)
(* _create_ip_sets ("gen", "set_addrs", "set_nets", "set_parsed") or at    *)
(* "read" (the return of the getter).  The node is the first of the list.  *)
(***************************************************************************)
\* faulty variant of create_ip_sets_next: the flag is set before the sets
create_ip_sets_flag_first(at) ==
    CASE at = "gen" -> "set_parsed"
      [] at = "set_parsed" -> "set_addrs"
      [] at = "set_addrs" -> "set_nets"
      [] at = "set_nets" -> "read"

\* lines 208-212 and 84 / 97: the statement that follows the statement at;
\* after the last one the getter reads the attribute it returns
create_ip_sets_next(at) ==
    CASE at = "gen" -> "set_addrs"
      [] at = "set_addrs" -> "set_nets"
      [] at = "set_nets" -> "set_parsed"
      [] at = "set_parsed" -> "read"

\* the accesses explored: the two properties, and has_ip with an address,
\* a network, an interface and a str
CallerOps ==
    { [name |-> a, ip_obj |-> [type |-> "none", ip |-> Invalid, network |-> NoNet]] :
        a \in {"ip_addrs", "ip_nets"} }
    \cup { [name |-> "has_ip", ip_obj |-> q] :
             q \in { Address(<<1, 2, 3, 1>>), Network(<<1, 2, 3, 0>>, 30),
                     Interface(<<1, 2, 3, 1>>, 30),
                     [type |-> "str", ip |-> Invalid, network |-> NoNet] } }

\* the caller c after the getter of c.attr returned v (lines 193-204): an
\* interface query goes on to ip_nets if the address matched; `in` on None
\* is a TypeError
after_read(c, v) ==
    IF c.op.name # "has_ip" THEN [c EXCEPT !.pc = "returned"]
    ELSE IF v = NoSet THEN [c EXCEPT !.pc = "raised"]
    ELSE IF c.op.ip_obj.type \in InterfaceTypes /\ c.attr = "ip_addrs"
              /\ c.op.ip_obj.ip \in v[1]
        THEN [c EXCEPT !.attr = "ip_nets", !.pc = "check"]
    ELSE [c EXCEPT !.pc = "returned"]

\* one step of one caller
caller_step ==
    /\ pc = "done"
    /\ Len(line) >= 1
    /\ \E t \in 1..MaxCallers :
          \/ /\ callers[t].pc = "idle"
             /\ \E op \in CallerOps :
                   callers' = [callers EXCEPT ![t] =
                       [@ EXCEPT !.op = op,
                                 !.attr = IF op.name = "ip_nets"
                                               \/ op.ip_obj.type \in NetworkTypes
                                             THEN "ip_nets" ELSE "ip_addrs",
                                 !.pc = IF op.name = "has_ip" /\ has_ip_raises(op.ip_obj)
                                           THEN "raised" ELSE "check"]]
             /\ UNCHANGED cache
          \/ /\ callers[t].pc = "check"
             /\ callers' = [callers EXCEPT ![t].pc = IF ips_parsed[1] THEN "read" ELSE "gen"]
             /\ UNCHANGED cache
          \/ /\ callers[t].pc = "gen"
             /\ callers' = [callers EXCEPT ![t].addrs_nets = gen_ip_addrs_nets(line[1]),
                                           ![t].pc = create_ip_sets_next("gen")]
             /\ UNCHANGED cache
          \/ /\ callers[t].pc = "set_addrs"
             /\ ip_addrs' = [ip_addrs EXCEPT ![1] = <<addrs_of(callers[t].addrs_nets)>>]
             /\ callers' = [callers EXCEPT ![t].pc = create_ip_sets_next("set_addrs")]
             /\ UNCHANGED <<ip_nets, ips_parsed>>
          \/ /\ callers[t].pc = "set_nets"
             /\ ip_nets' = [ip_nets EXCEPT ![1] = <<nets_of(callers[t].addrs_nets)>>]
             /\ callers' = [callers EXCEPT ![t].pc = create_ip_sets_next("set_nets")]
             /\ UNCHANGED <<ip_addrs, ips_parsed>>
          \/ /\ callers[t].pc = "set_parsed"
             /\ ips_parsed' = [ips_parsed EXCEPT ![1] = TRUE]
             /\ callers' = [callers EXCEPT ![t].pc = create_ip_sets_next("set_parsed")]
             /\ UNCHANGED <<ip_addrs, ip_nets>>
          \/ /\ callers[t].pc = "read"
             /\ \E v \in {IF callers[t].attr = "ip_addrs" THEN ip_addrs[1] ELSE ip_nets[1]} :
                   callers' = [callers EXCEPT ![t] =
                       after_read([@ EXCEPT !.seen = Append(@, [attr |-> callers[t].attr,
                                                                value |-> v])], v)]
             /\ UNCHANGED cache
    /\ UNCHANGED <<fn, config, pc, lc, locals, nodes, call, result, log, exc>>

\* the callers share the node of a one-line document
SpecCache ==
    /\ InitWith({"parse_leading_spaces"} \X
                  { << <<"1",".","2",".","3",".","1","/","3","0">> >>,
                    << <<"9",".","0",".","0",".","0","/","8">> >>,
                    << <<"i","p">> >> })
    /\ [][parse_leading_spaces \/ Return \/ caller_step]_vars

(***************************************************************************)
(* Vocabulary of C15 - C18.                                                *)
(***************************************************************************)
HasIpReturned == call.op = "has_ip" /\ pc = "returned"

\* the sets stored for the node has_ip was called on
StoredAddrs == ip_addrs[call.self][1]

StoredNets == ip_nets[call.self][1]

\* address a lies in network net, of the same IP version
InNetwork(a, net) == Len(a) = Len(net[1]) /\ masked(a, net[2]) = net[1]

\* the address rule and the network rule of a query
AddressRule(a) == a \in StoredAddrs \/ \E net \in StoredNets : InNetwork(a, net)

NetworkRule(net) == net \in StoredNets \/ \E a \in StoredAddrs : InNetwork(a, net)

(***************************************************************************)
(* C15: has_ip with an address query returns true if and only if the       *)
(* address equals some address stored for the node or is contained in      *)
(* some network stored for the node (same IP version).                     *)
(***************************************************************************)
C15_AddressQuery ==
    (HasIpReturned /\ call.ip_obj.type \in AddressTypes) =>
        (result <=> AddressRule(call.ip_obj.ip))

(***************************************************************************)
(* C16: has_ip with an interface query returns true if its address         *)
(* satisfies the address rule or its network satisfies the network rule:   *)
(* one of the two matching is sufficient.                                  *)
(***************************************************************************)
C16_InterfaceQuery ==
    (HasIpReturned /\ call.ip_obj.type \in InterfaceTypes) =>
        ((AddressRule(call.ip_obj.ip) \/ NetworkRule(call.ip_obj.network)) => result)

(***************************************************************************)
(* C17: has_ip called with a query that is not an address, a network or    *)
(* an interface value (a plain string, say) raises ValueError to the       *)
(* caller and returns no result.                                           *)
(***************************************************************************)
C17_OtherQueryRaises ==
    (call.op = "has_ip" /\ pc \in {"returned", "raised"}
        /\ call.ip_obj.type \notin AddressTypes \cup NetworkTypes \cup InterfaceTypes) =>
        (pc = "raised" /\ exc = "ValueError" /\ result = None)

\* has_ip was called with a str on a line that holds an address
C17_Witness ==
    /\ call.op = "has_ip" /\ call.ip_obj.type = "str"
    /\ pc = "raised"
    /\ contains(line[call.self], <<"1",".","2",".","3",".","1">>)

\* the whitespace-separated tokens of the text t
Tokens(t) == split(t, " ")

IsIPv4Text(t) == ipv4_address(t) # Invalid

\* a dotted quad that is a netmask: ones followed by zeros
IsNetmaskText(t) == IsIPv4Text(t) /\ prefix_from_ip_int(ipv4_address(t)) # -1

\* positions of the tokens that are an IPv4 address followed by a netmask
PairsAt(toks) ==
    {i \in 1..(Len(toks) - 1) : IsIPv4Text(toks[i]) /\ IsNetmaskText(toks[i + 1])}

(***************************************************************************)
(* C18: for a line containing an IPv4 address followed by a space and a    *)
(* dotted netmask that is a valid mask, the extractor stores the           *)
(* enclosing network in the network set and the address as written in     *)
(* the address set, and does not store the netmask as an address (unless   *)
(* the same text also stands in the line outside such a pair).  Pairs      *)
(* that overlap another pair are left aside.                               *)
(***************************************************************************)
C18_AddressNetmaskPair ==
    HasIpReturned =>
        LET toks == Tokens(line[call.self])
        IN  \A i \in PairsAt(toks) :
                (i - 1 \notin PairsAt(toks) /\ i + 1 \notin PairsAt(toks)) =>
                    LET a == ipv4_address(toks[i])
                        m == ipv4_address(toks[i + 1])
                        p == prefix_from_ip_int(m)
                    IN  /\ <<masked(a, p), p>> \in StoredNets
                        /\ a \in StoredAddrs
                        /\ m \in StoredAddrs =>
                              \E j \in 1..Len(toks) :
                                  toks[j] = toks[i + 1] /\ j - 1 \notin PairsAt(toks)


(***************************************************************************)
(* search_helpers.find_lines (search_helpers.py 10-101) with _find_lines   *)
(* (200-271) and common_line_suppressor (464-517), called on the list a    *)
(* builder returned.  A callable of the search spec is re_search_cb(regex) *)
(* for a regex made of literal characters.  What a function gives is a     *)
(* record: exc names the exception it raised ("" if none) and value is     *)
(* what it returned.  find_lines returns an Optional list: NoList stands    *)
(* for None and <<l>> for the list l, so that None and [] differ.          *)
(***************************************************************************)
NoList == <<>>

returns(v) == [exc |-> "", value |-> v]

raises(e) == [exc |-> e, value |-> NoList]

\* a callable made by re_search_cb, a list, an object that is neither
Callable(regex) == [type |-> "function", regex |-> regex]

List(items) == [type |-> "list", items |-> items]

NotCallable == [type |-> "int"]

\* the regex terms: a str and a compiled re.Pattern
Str(regex) == [type |-> "str", regex |-> regex]

Pattern(regex) == [type |-> "Pattern", regex |-> regex]

\* iter(obj) succeeds on a list and on a str
isiterable(obj) == obj.type \in {"list", "str"}

\* [i for i in obj]: the members of a list, the characters of a str
iter_items(obj) ==
    IF obj.type = "str" THEN [k \in 1..Len(obj.regex) |-> Str(<<obj.regex[k]>>)]
    ELSE obj.items

callable(obj) == obj.type = "function"

\* re_search_cb(regex)(o): re.search(regex, str(o)) is not None
re_search_cb(regex, o) == contains(line[o], regex)

\* [j for l in lists for j in l]
RECURSIVE flatten(_)
flatten(lists) == IF lists = <<>> THEN <<>> ELSE Head(lists) \o flatten(Tail(lists))

\* faulty variant of suppress_common_lines: previous_lines accumulates every
\* list seen so far
RECURSIVE suppress_every_seen_line(_, _)
suppress_every_seen_line(families, previous_lines) ==
    IF families = <<>> THEN <<>>
    ELSE << SelectSeq(Head(families), LAMBDA i : i \notin Range(previous_lines)) >>
            \o suppress_every_seen_line(Tail(families), previous_lines \o Head(families))

\* the closure suppress_common_lines applied to the families of successive
\* matches, previous_lines being what the call before it left
RECURSIVE suppress_common_lines(_, _)
suppress_common_lines(families, previous_lines) ==
    IF families = <<>> THEN <<>>
    ELSE << SelectSeq(Head(families), LAMBDA i : i \notin Range(previous_lines)) >>
            \o suppress_common_lines(Tail(families), Head(families))

\* faulty variant of family_lines: the suppressor is never applied
family_lines_not_suppressed(families, flatten_family, suppress_common_ancestors) ==
    IF ~flatten_family THEN families ELSE flatten(families)

\* lines 269-271: the result built from families, the list of
\* i.family(**family_options) for each match i
family_lines(families, flatten_family, suppress_common_ancestors) ==
    IF ~flatten_family THEN families
    ELSE IF suppress_common_ancestors THEN flatten(suppress_common_lines(families, <<>>))
    ELSE flatten(families)

\* lines 254-271, matches being the members of doc_lines search_fn accepts;
\* family() is called only if there is a match, and a keyword it does not
\* know is a TypeError
with_family(matches, flatten_family, suppress_common_ancestors, family_options) ==
    IF \A k \in DOMAIN family_options : ~family_options[k]
        THEN returns(IF flatten_family THEN matches
                     ELSE [k \in 1..Len(matches) |-> <<matches[k]>>])
    ELSE IF matches = <<>> THEN returns(<<>>)
    ELSE IF ~(DOMAIN family_options \subseteq family_params) THEN raises("TypeError")
    ELSE returns(family_lines(
            [k \in 1..Len(matches) |->
                family(matches[k], bound(family_options, "include_ancestors", TRUE),
                                   bound(family_options, "include_children", TRUE),
                                   bound(family_options, "include_all_descendants", TRUE))],
            flatten_family, suppress_common_ancestors))

\* _find_lines(doc_lines, search_fn, flatten_family=..., suppress_common_ancestors=...,
\* **family_options) with the default conversions
private_find_lines(doc_lines, search_fn, flatten_family, suppress_common_ancestors, family_options) ==
    with_family(SelectSeq(doc_lines, LAMBDA i : re_search_cb(search_fn.regex, i)),
                flatten_family, suppress_common_ancestors, family_options)

\* lines 98-101: None in place of an empty result
none_if_empty(found) ==
    IF found.exc # "" THEN found
    ELSE IF Len(found.value) = 0 THEN returns(NoList)
    ELSE returns(<<found.value>>)

\* the family options among the pass-through options opts
family_options_of(opts) == [k \in family_params |-> opts[k]]

\* lines 98-101 for the final search_fn
final_search(doc_lines, search_fn, opts) ==
    none_if_empty(private_find_lines(doc_lines, search_fn, opts.flatten_family,
                                     opts.suppress_common_ancestors, family_options_of(opts)))

\* the for-loop over search_spec[:-1] from search_spec[i] on, then the final
\* search
RECURSIVE chain(_, _, _, _, _)
RECURSIVE after_stage(_, _, _, _, _)
chain(doc_lines, search_spec, i, recurse_search, opts) ==
    IF i >= Len(search_spec) THEN final_search(doc_lines, search_spec[Len(search_spec)], opts)
    ELSE after_stage(private_find_lines(doc_lines, search_spec[i], TRUE, FALSE,
                         [include_ancestors |-> FALSE, include_self |-> FALSE,
                          include_children |-> TRUE,
                          include_all_descendants |-> recurse_search]),
                     search_spec, i, recurse_search, opts)

\* lines 80-81 for what _find_lines gave for search_spec[i]
after_stage(found, search_spec, i, recurse_search, opts) ==
    IF found.exc # "" THEN found
    ELSE IF Len(found.value) = 0 THEN returns(NoList)
    ELSE chain(found.value, search_spec, i + 1, recurse_search, opts)

\* find_lines(doc_lines, search_spec, recurse_search, **opts)
find_lines_outcome(doc_lines, search_spec, recurse_search, opts) ==
    IF isiterable(search_spec) /\ \A i \in Range(iter_items(search_spec)) : callable(i)
        THEN IF iter_items(search_spec) = <<>>
                THEN raises("IndexError")   \* search_spec[-1] of an empty list
                ELSE chain(doc_lines, iter_items(search_spec), 1, recurse_search, opts)
    ELSE IF isiterable(search_spec) THEN raises("ValueError")
    ELSE IF ~callable(search_spec) THEN raises("ValueError")
    ELSE final_search(doc_lines, search_spec, opts)

\* the callables, the search specs and the options explored
Callables == {Callable(regex) : regex \in {<<"a">>, <<"b">>, <<"x">>}}

SearchSpecs ==
    Callables
    \cup {List(items) : items \in SeqsUpTo(Callables, MaxChain)}
    \cup {NotCallable, List(<<Callable(<<"a">>), NotCallable>>), Str(<<"a">>), Str(<<>>)}

pass_through == {"flatten_family", "suppress_common_ancestors"} \cup family_params

\* find_lines on the returned list
find_lines ==
    /\ pc = "done"
    /\ \E search_spec \in SearchSpecs, recurse_search \in BOOLEAN,
          opts \in [pass_through -> BOOLEAN] :
          \E outcome \in {find_lines_outcome(dn_list, search_spec, recurse_search, opts)} :
             /\ call' = [op |-> "find_lines", search_spec |-> search_spec,
                         recurse_search |-> recurse_search, opts |-> opts]
             /\ IF outcome.exc = ""
                   THEN /\ result' = outcome.value
                        /\ pc' = "returned"
                        /\ exc' = exc
                   ELSE /\ pc' = "raised"
                        /\ exc' = outcome.exc
                        /\ result' = result
    /\ UNCHANGED <<fn, config, lc, locals, nodes, cache, log, callers>>

\* lines of the documents searched
SearchLines == { <<"a">>, <<" ","a">>, <<" ","b">>, <<" "," ","b">> }

InitSearch == InitWith({"parse_leading_spaces"} \X SeqsUpTo(SearchLines, MaxSearch))

SpecSearch == InitSearch /\ [][parse_leading_spaces \/ Return \/ find_lines]_vars


(***************************************************************************)
(* find_lines_regex (search_helpers.py 103-198) and find_parent_objects    *)
(* with _check_parentspec_childspec (329-383, 450-462).  A regex term is a *)
(* str or a compiled pattern of literal characters, without groups.        *)
(***************************************************************************)
is_re_term(x) == x.type \in {"str", "Pattern"}

\* lines 186-198 once regex_spec is mapped to search_spec: with a group the
\* conversion of a match is re_search_dl(final_term, x).group(group), an
\* IndexError as the patterns have no group
regex_find_lines(doc_lines, search_spec, recurse_search, group, opts) ==
    IF group # None
          /\ find_lines_outcome(doc_lines, search_spec, recurse_search, opts).exc = ""
          /\ find_lines_outcome(doc_lines, search_spec, recurse_search, opts).value # NoList
        THEN raises("IndexError")
        ELSE find_lines_outcome(doc_lines, search_spec, recurse_search, opts)

\* find_lines_regex(doc_lines, regex_spec, recurse_search, group, **opts)
find_lines_regex_outcome(doc_lines, regex_spec, recurse_search, group, opts) ==
    IF isiterable(regex_spec) /\ ~is_re_term(regex_spec)
          /\ \A i \in Range(iter_items(regex_spec)) : is_re_term(i)
        THEN IF iter_items(regex_spec) = <<>>
                THEN raises("IndexError")   \* regex_spec[-1] of an empty list
                ELSE regex_find_lines(doc_lines,
                         List([k \in 1..Len(regex_spec.items) |->
                                  Callable(regex_spec.items[k].regex)]),
                         recurse_search, group, opts)
    ELSE IF isiterable(regex_spec) /\ ~is_re_term(regex_spec) THEN raises("ValueError")
    ELSE IF is_re_term(regex_spec)
        THEN regex_find_lines(doc_lines, Callable(regex_spec.regex), recurse_search,
                              group, opts)
    ELSE raises("ValueError")

\* the regex specs explored
RegexSpecs ==
    LET RegexTerms == {Str(<<"a">>), Pattern(<<"b">>), Str(<<"x">>)}
    IN  RegexTerms
        \cup {List(items) : items \in SeqsUpTo(RegexTerms, MaxChain)}
        \cup {NotCallable, List(<<Str(<<"a">>), NotCallable>>)}

\* find_lines_regex on the returned list; group is None or 1
find_lines_regex ==
    /\ pc = "done"
    /\ \E regex_spec \in RegexSpecs, recurse_search \in BOOLEAN, group \in {None, 1},
          opts \in [pass_through -> BOOLEAN] :
          \E outcome \in {find_lines_regex_outcome(dn_list, regex_spec, recurse_search,
                                                   group, opts)} :
             /\ call' = [op |-> "find_lines_regex", search_spec |-> regex_spec,
                         recurse_search |-> recurse_search, group |-> group,
                         opts |-> opts]
             /\ IF outcome.exc = ""
                   THEN /\ result' = outcome.value
                        /\ pc' = "returned"
                        /\ exc' = exc
                   ELSE /\ pc' = "raised"
                        /\ exc' = outcome.exc
                        /\ result' = result
    /\ UNCHANGED <<fn, config, lc, locals, nodes, cache, log, callers>>

\* the value None given as childspec
NoneObject == [type |-> "NoneType"]

\* lines 450-462: the pair (parentspec, childspec)
check_parentspec_childspec(parentspec, childspec) ==
    IF isiterable(parentspec) /\ childspec # NoneObject THEN raises("ValueError")
    ELSE IF isiterable(parentspec) /\ Len(iter_items(parentspec)) # 2
        THEN raises("ValueError")
    ELSE IF isiterable(parentspec)
        THEN returns(<<iter_items(parentspec)[1], iter_items(parentspec)[2]>>)
    ELSE returns(<<parentspec, childspec>>)

\* lines 361-367
child_getter(o, recurse) == IF recurse THEN all_descendants(o) ELSE children[o]

\* lines 370-375
search_fn(o, parentspec, childspec, recurse, negative_child_match) ==
    /\ re_search_cb(parentspec.regex, o)
    /\ (\E c \in Range(child_getter(o, recurse)) : re_search_cb(childspec.regex, c))
          # negative_child_match

\* lines 370-383 for the pair specs: re.search raises TypeError on a first
\* argument that is no regex term, the parent term on the first node and
\* the child term on the first child looked at; find_lines with a single
\* callable gives the nodes it accepts, or None, which becomes []
parent_objects(doc_lines, specs, recurse, negative_child_match) ==
    IF \/ doc_lines # <<>> /\ ~is_re_term(specs[1])
       \/ ~is_re_term(specs[2])
            /\ \E o \in Range(doc_lines) : child_getter(o, recurse) # <<>>
        THEN raises("TypeError")
        ELSE returns(SelectSeq(doc_lines,
                 LAMBDA o : search_fn(o, specs[1], specs[2], recurse,
                                      negative_child_match)))

find_parent_objects_outcome(doc_lines, parentspec, childspec, recurse, negative_child_match) ==
    IF check_parentspec_childspec(parentspec, childspec).exc # ""
        THEN check_parentspec_childspec(parentspec, childspec)
        ELSE parent_objects(doc_lines, check_parentspec_childspec(parentspec, childspec).value,
                            recurse, negative_child_match)

\* find_parent_objects on the returned list
find_parent_objects ==
    /\ pc = "done"
    /\ \E parentspec \in {Str(<<"a">>), Str(<<"a", "b">>), Pattern(<<"a">>),
                           Pattern(<<"b">>), List(<<Pattern(<<"a">>), Pattern(<<"b">>)>>),
                           List(<<Str(<<"a">>)>>)},
          childspec \in {NoneObject, Str(<<"b">>), Pattern(<<"b">>), Pattern(<<"a">>)},
          recurse \in BOOLEAN, negative_child_match \in BOOLEAN :
          \E outcome \in {find_parent_objects_outcome(dn_list, parentspec, childspec,
                                                      recurse, negative_child_match)} :
             /\ call' = [op |-> "find_parent_objects", parentspec |-> parentspec,
                         childspec |-> childspec, recurse |-> recurse,
                         negative_child_match |-> negative_child_match]
             /\ IF outcome.exc = ""
                   THEN /\ result' = outcome.value
                        /\ pc' = "returned"
                        /\ exc' = exc
                   ELSE /\ pc' = "raised"
                        /\ exc' = outcome.exc
                        /\ result' = result
    /\ UNCHANGED <<fn, config, lc, locals, nodes, cache, log, callers>>

\* every operation on the returned list
SpecQueries ==
    InitSearch /\ [][parse_leading_spaces \/ Return \/ family_call \/ has_ip \/ find_lines
                        \/ find_lines_regex \/ find_parent_objects]_vars

(***************************************************************************)
(* Vocabulary of C19 and C20: the stages of a search as the description    *)
(* of the search engine states them.                                       *)
(***************************************************************************)
FindLinesDone == call.op = "find_lines" /\ pc \in {"returned", "raised"}

\* a single predicate or a non-empty chain of predicates
ValidSpec(s) ==
    \/ callable(s)
    \/ isiterable(s) /\ iter_items(s) # <<>> /\ \A i \in Range(iter_items(s)) : callable(i)

\* the predicates p0, ..., pk of a valid spec, numbered from 1
Predicates(s) == IF callable(s) THEN <<s>> ELSE iter_items(s)

Satisfies(n, p) == re_search_cb(p.regex, n)

\* the nodes handed to find_lines
Searched == Range(dn_list)

\* the candidates of stage i: the nodes searched for the first stage, then
\* the descendants (recurse) or the children (not recurse) of the candidates of
\* the stage before that satisfy its predicate
RECURSIVE Candidates(_, _, _)
Candidates(ps, i, recurse) ==
    IF i = 1 THEN Searched
    ELSE LET M == {n \in Candidates(ps, i - 1, recurse) : Satisfies(n, ps[i - 1])}
         IN  IF recurse THEN UNION {DescendantSet(m) : m \in M}
             ELSE UNION {Range(children[m]) : m \in M}

StageMatches(ps, i, recurse) == {n \in Candidates(ps, i, recurse) : Satisfies(n, ps[i])}

SomeStageMatchesNothing(ps, recurse) ==
    \E i \in 1..Len(ps) : StageMatches(ps, i, recurse) = {}

(***************************************************************************)
(* C19: for a valid spec find_lines returns None exactly when some stage   *)
(* of the search, an intermediate stage of a chain or the final predicate, *)
(* matches no node, and a non-empty list in every other case; it never     *)
(* returns an empty list.                                                  *)
(***************************************************************************)
C19_NoneIffNoMatch ==
    (FindLinesDone /\ ValidSpec(call.search_spec)) =>
        /\ pc = "returned"
        /\ result = NoList
            <=> SomeStageMatchesNothing(Predicates(call.search_spec), call.recurse_search)
        /\ result # NoList => Len(result[1]) > 0

(***************************************************************************)
(* C20: for a chain of two or more predicates the candidates of a stage    *)
(* are the descendants (all of them if recurse_search, the children        *)
(* otherwise) of the matches of the stage before, these matches excluded,  *)
(* and the result is made of the candidates of the last stage that         *)
(* satisfy the last predicate, in document order, with the family of each  *)
(* as the caller's options ask for it.                                     *)
(***************************************************************************)
C20_ChainedSearch ==
    (FindLinesDone /\ ValidSpec(call.search_spec) /\ isiterable(call.search_spec)
        /\ Len(call.search_spec.items) >= 2) =>
        LET ps    == call.search_spec.items
            final == StageMatches(ps, Len(ps), call.recurse_search)
        IN  /\ pc = "returned"
            /\ result = none_if_empty(with_family(InDocumentOrder(final),
                            call.opts.flatten_family, call.opts.suppress_common_ancestors,
                            family_options_of(call.opts))).value

(***************************************************************************)
(* Vocabulary of C21 and C29: the family lists F1, F2, ... of the          *)
(* successive matches of a search with one predicate that flattens its     *)
(* result and suppresses common lines.                                     *)
(***************************************************************************)
SuppressedSearch ==
    /\ FindLinesDone /\ pc = "returned" /\ result # NoList
    /\ callable(call.search_spec)
    /\ call.opts.flatten_family /\ call.opts.suppress_common_ancestors
    /\ \E k \in family_params : call.opts[k]

\* the matches, in the order of the list searched
MatchList == SelectSeq(dn_list, LAMBDA n : Satisfies(n, call.search_spec))

\* the family list of the k-th match, F(0) being empty
F(k) ==
    IF k = 0 THEN <<>>
    ELSE family(MatchList[k], call.opts.include_ancestors, call.opts.include_children,
                call.opts.include_all_descendants)

\* what the suppressor gives for F(k)
Emitted(k) == SelectSeq(F(k), LAMBDA n : n \notin Range(F(k - 1)))

RECURSIVE EmittedUpTo(_)
EmittedUpTo(k) == IF k = 0 THEN <<>> ELSE EmittedUpTo(k - 1) \o Emitted(k)

(***************************************************************************)
(* C21: fed the family lists F1, F2, ... of consecutive matches, the       *)
(* suppressor gives for Fk the elements of Fk, in order, that are not in   *)
(* the unfiltered F(k-1); only the list just before counts, so a node of   *)
(* F(k-2) that is not in F(k-1) is given again for Fk.                     *)
(***************************************************************************)
C21_AdjacentSuppression ==
    SuppressedSearch => result[1] = EmittedUpTo(Len(MatchList))

\* a node of F(k-2) that F(k-1) does not hold comes out again with F(k)
C21_Witness ==
    /\ SuppressedSearch
    /\ \E k \in 3..Len(MatchList) : \E n \in Range(F(k)) :
          n \in Range(F(k - 2)) /\ n \notin Range(F(k - 1)) /\ n \in Range(Emitted(k))

(***************************************************************************)
(* C29: with flatten_family and suppress_common_ancestors, and             *)
(* include_ancestors as the only family option, the result of a search     *)
(* with one predicate is in document order without repeats (line_num       *)
(* strictly increasing, so that no node comes out for two adjacent         *)
(* matches), and every match and every ancestor of a match is in it.       *)
(***************************************************************************)
AncestorsOnlySearch ==
    /\ SuppressedSearch
    /\ call.opts.include_ancestors
    /\ ~call.opts.include_children /\ ~call.opts.include_all_descendants

C29_FlattenedOrder ==
    AncestorsOnlySearch =>
        /\ \A i \in 1..(Len(result[1]) - 1) : result[1][i] < result[1][i + 1]
        /\ \A m \in Range(MatchList) : {m} \cup AncestorSet(m) \subseteq Range(result[1])
        /\ \A k \in 2..Len(MatchList) : Range(Emitted(k)) \cap Range(Emitted(k - 1)) = {}

\* two adjacent matches have an ancestor in common, given once
C29_Witness ==
    /\ AncestorsOnlySearch
    /\ \E k \in 2..Len(MatchList) :
          AncestorSet(MatchList[k]) \cap AncestorSet(MatchList[k - 1]) # {}

(***************************************************************************)
(* C22: find_parent_objects called with a parentspec and a childspec that  *)
(* are each one regex term (a str or a compiled pattern) returns the nodes *)
(* searched, in the order searched, whose text matches parentspec and that *)
(* have a descendant (recurse) or a child (not recurse) matching           *)
(* childspec, or none such with negative_child_match; the list is empty    *)
(* when no node qualifies.                                                 *)
(***************************************************************************)
ParentObjectsDone == call.op = "find_parent_objects" /\ pc \in {"returned", "raised"}

\* the nodes below n the child term is compared with
Below(n) == IF call.recurse THEN DescendantSet(n) ELSE Range(children[n])

Qualifies(n) ==
    /\ contains(line[n], call.parentspec.regex)
    /\ (\E c \in Below(n) : contains(line[c], call.childspec.regex))
          # call.negative_child_match

C22_ParentObjects ==
    (ParentObjectsDone /\ is_re_term(call.parentspec) /\ is_re_term(call.childspec)) =>
        /\ pc = "returned"
        /\ result = InDocumentOrder({n \in Searched : Qualifies(n)})

(***************************************************************************)
(* C23: find_lines and find_lines_regex raise ValueError, and nothing      *)
(* else, for every spec that is neither a single callable (a single regex  *)
(* term for find_lines_regex) nor a non-empty iterable of them; an empty   *)
(* iterable and an iterable with one invalid member are such specs.        *)
(***************************************************************************)
SearchDone ==
    call.op \in {"find_lines", "find_lines_regex"} /\ pc \in {"returned", "raised"}

\* a single regex term or a non-empty list of regex terms
ValidRegexSpec(s) ==
    \/ is_re_term(s)
    \/ s.type = "list" /\ s.items # <<>> /\ \A i \in Range(s.items) : is_re_term(i)

InvalidSpecGiven ==
    /\ SearchDone
    /\ IF call.op = "find_lines" THEN ~ValidSpec(call.search_spec)
       ELSE ~ValidRegexSpec(call.search_spec)

C23_InvalidSpecIsValueError ==
    InvalidSpecGiven => pc = "raised" /\ exc = "ValueError"

(***************************************************************************)
(* C24: once the builder has returned, no operation on the returned list   *)
(* (family with the ancestors and all_descendants it reads, find_lines,    *)
(* find_lines_regex, find_parent_objects, has_ip), whether it returns or   *)
(* raises, changes the line, the line_num, the parent or the children of a *)
(* node, or the list itself; it writes nothing but the address cache of a  *)
(* node.                                                                   *)
(***************************************************************************)
C24_QueriesKeepForest ==
    [][pc = "done" =>
          /\ line' = line /\ parent' = parent /\ children' = children
          /\ dn_list' = dn_list
          /\ UNCHANGED <<fn, config, lc, locals, log>>]_vars

\* has_ip has filled the address cache of a node that has a parent and a
\* child
C24_Witness ==
    /\ pc = "returned" /\ call.op = "has_ip"
    /\ ips_parsed[call.self] /\ ip_addrs[call.self] # NoSet
    /\ parent[call.self] # None /\ children[call.self] # <<>>

(***************************************************************************)
(* C25: whatever the interleaving of the callers that make the first       *)
(* accesses to ip_addrs, ip_nets or has_ip of a node, no caller is given   *)
(* an unset (None) set, the callers are given equal sets, and from the     *)
(* moment the parsed flag is set both sets are set and keep their value.   *)
(***************************************************************************)
\* what the getters gave the callers
Seen == UNION { Range(callers[t].seen) : t \in 1..MaxCallers }

CacheReadsSafe ==
    /\ \A r \in Seen : r.value # NoSet
    /\ \A r, q \in Seen : r.attr = q.attr => r.value = q.value
    /\ \A n \in 1..Len(ips_parsed) :
          ips_parsed[n] => ip_addrs[n] # NoSet /\ ip_nets[n] # NoSet

CacheStableOnceParsed ==
    \A n \in 1..Len(ips_parsed) :
        ips_parsed[n] => /\ ips_parsed'[n]
                         /\ ip_addrs'[n] = ip_addrs[n]
                         /\ ip_nets'[n] = ip_nets[n]

C25_CacheRace == [](CacheReadsSafe) /\ [][CacheStableOnceParsed]_vars

\* two callers found the flag unset, both ran _create_ip_sets on a line that
\* holds an address, and both were given the set
C25_Witness ==
    /\ \A t \in 1..2 : callers[t].pc = "returned" /\ callers[t].addrs_nets # <<>>
                         /\ callers[t].seen # <<>>
    /\ ips_parsed[1]

(***************************************************************************)
(* C26: while a banner delimiter is pending, reading a body line (a line   *)
(* that does not open a banner) leaves the indentation unit, the current   *)
(* level and the stack of open nodes as they were, but for the pop of the  *)
(* banner frame when the line holds the delimiter.                         *)
(***************************************************************************)
BannerBodyPending ==
    /\ pc = "parse_leading_spaces"
    /\ lc < Len(config)
    /\ banner_delimiter # NoDelimiter
    /\ ~startswith(NextLine, kw_banner)

C26_BannerBypassesIndentation ==
    [][(BannerBodyPending /\ lc' = lc + 1) =>
          /\ space_multiplier' = space_multiplier
          /\ current_space_level' = current_space_level
          /\ \/ dn_stack' = dn_stack
             \/ contains(NextLine, banner_delimiter) /\ dn_stack' = Pop(dn_stack)]_vars

(***************************************************************************)
(* C27: a banner whose delimiter has not been read when the input ends, or *)
(* when the next line that opens a banner is read, is reported by a        *)
(* warning, and the builder goes on (to the next line, or to its return).  *)
(***************************************************************************)
BannerWarning(r) == r.kind = "unterminated_banner"

SecondBannerPending ==
    /\ pc = "parse_leading_spaces"
    /\ lc < Len(config)
    /\ banner_delimiter # NoDelimiter
    /\ startswith(NextLine, kw_banner)

C27_UnterminatedBannerWarned ==
    /\ []((pc = "done" /\ banner_delimiter # NoDelimiter) =>
             \E i \in DOMAIN log : BannerWarning(log[i]))
    /\ [][SecondBannerPending =>
             /\ pc' = "parse_leading_spaces" /\ lc' = lc + 1
             /\ \E i \in (Len(log) + 1)..Len(log') : BannerWarning(log'[i])]_vars

(***************************************************************************)
(* C28: parse_braced returns one node per line, in the order read, for     *)
(* every input: it does not raise, also on a line ending with '}' read     *)
(* while no node is open, be it a lone '}' or a line that opens and closes *)
(* a block.                                                                *)
(***************************************************************************)
C28_BracedAlwaysReturns ==
    fn = "parse_braced" =>
        /\ pc # "raised"
        /\ pc = "done" =>
              /\ Len(dn_list) = Len(config)
              /\ \A i \in 1..Len(config) :
                    dn_list[i] = i /\ line[i] = rstrip(config[i])

(***************************************************************************)
(* C30: the cascade reads the line from left to right and restarts after   *)
(* each accepted match, so that every token of the line that converts is   *)
(* extracted whatever the kinds of the tokens around it: the address of a  *)
(* bare address token (one that is not the netmask of a pair) is stored,   *)
(* and so are the address and the network of an address/prefix token.      *)
(***************************************************************************)
\* the bare address tokens that are not the netmask of an address-netmask pair
BareAddressTokens(toks) ==
    {i \in 1..Len(toks) : ip_address(toks[i]) # Invalid /\ i - 1 \notin PairsAt(toks)}

PrefixTokens(toks) == {i \in 1..Len(toks) : ip_interface(toks[i]) # Invalid}

C30_EveryTokenExtracted ==
    HasIpReturned =>
        /\ \A i \in BareAddressTokens(Tokens(line[call.self])) :
              ip_address(Tokens(line[call.self])[i]) \in StoredAddrs
        /\ \A i \in PrefixTokens(Tokens(line[call.self])) :
              /\ ip_interface(Tokens(line[call.self])[i])[1] \in StoredAddrs
              /\ ip_interface(Tokens(line[call.self])[i])[2] \in StoredNets

=============================================================================
